---- MODULE Spec2Model ----
(***************************************************************************)
(* A model of authgate, a forward-auth gateway: route matching over a      *)
(* hot-reloadable rule table, session resolution through a TTL cache and   *)
(* an external identity service, and policy evaluation over roles,         *)
(* permissions, scopes and teams.                                          *)
(*                                                                         *)
(* Strings are sequences of one-character strings, so that prefix, suffix, *)
(* split and encoding operations are computed the way the code computes    *)
(* them.  Option<T> is [some |-> FALSE] or [some |-> TRUE, val |-> x].     *)
(***************************************************************************)
EXTENDS Integers, Sequences, FiniteSets, TLC

VARIABLES
    config,   \* ConfigManager.config: the in-memory Config behind the RwLock
    cache,    \* InMemoryCache.cache: token -> (session, expiry)
    now,      \* wall clock, whole seconds
    env,      \* process environment read by AuthService::new and the handler
    req,      \* forward-auth requests in flight: locals and position of each
    server,   \* main(): "boot" before the first load, then "serving" or "exited"
    args,     \* input of the pure function under check (function harnesses)
    ret,      \* its result
    hist      \* what the caller of an interface has done so far (a history)

vars == <<config, cache, now, env, req, server, args, ret, hist>>
pipeline_vars == <<config, cache, now, env, req, server>>
harness_vars == <<args, ret, hist>>

None == [some |-> FALSE]
Some(x) == [some |-> TRUE, val |-> x]

\* The value of a harness variable before the function has been applied, and
\* of every variable a specification does not use.
Idle == [idle |-> TRUE]

(***************************************************************************)
(* String helpers (std::str).                                              *)
(***************************************************************************)
starts_with(s, p) ==
    /\ Len(p) <= Len(s)
    /\ SubSeq(s, 1, Len(p)) = p

ends_with(s, p) ==
    /\ Len(p) <= Len(s)
    /\ SubSeq(s, Len(s) - Len(p) + 1, Len(s)) = p

contains_char(s, c) == \E i \in 1..Len(s) : s[i] = c

(***************************************************************************)
(* Route matcher (matcher.rs).                                             *)
(***************************************************************************)
\* WILDCARD_HOST_REGEX = ^\*\.(.+)$ : the capture group, when the pattern
\* matches.  `.` does not match a line feed and `$` only matches at the end.
wildcard_suffix(route_host) ==
    IF /\ Len(route_host) >= 3
       /\ route_host[1] = "*"
       /\ route_host[2] = "."
       /\ ~contains_char(SubSeq(route_host, 3, Len(route_host)), "\n")
    THEN Some(SubSeq(route_host, 3, Len(route_host)))
    ELSE None

\* match_host with the check of the label separator left out.
match_host_any_prefix(request_host, route_host) ==
    IF request_host = route_host THEN TRUE
    ELSE LET cap == wildcard_suffix(route_host) IN
         IF cap.some
         THEN ends_with(request_host, cap.val) /\ Len(request_host) > Len(cap.val)
         ELSE FALSE

match_host(request_host, route_host) ==
    IF request_host = route_host THEN TRUE
    ELSE LET cap == wildcard_suffix(route_host) IN
         IF cap.some
         THEN LET domain_suffix == cap.val IN
              IF ends_with(request_host, domain_suffix)
                    /\ Len(request_host) > Len(domain_suffix)
              THEN LET prefix == SubSeq(request_host, 1,
                                        Len(request_host) - Len(domain_suffix))
                   IN  ends_with(prefix, <<".">>)
              ELSE FALSE
         ELSE FALSE

\* match_path taking the prefix with its asterisk.
match_path_keeps_star(request_path, route_path) ==
    IF request_path = route_path THEN TRUE
    ELSE IF ends_with(route_path, <<"*">>)
         THEN starts_with(request_path, route_path)
         ELSE FALSE

match_path(request_path, route_path) ==
    IF request_path = route_path THEN TRUE
    ELSE IF ends_with(route_path, <<"*">>)
         THEN LET prefix == SubSeq(route_path, 1, Len(route_path) - 1)
              IN  starts_with(request_path, prefix)
         ELSE FALSE

RECURSIVE match_route_from(_, _, _, _)
match_route_from(routes, i, host, path) ==
    IF i > Len(routes) THEN None
    ELSE IF match_host(host, routes[i].host) /\ match_path(path, routes[i].path)
         THEN Some(routes[i])
         ELSE match_route_from(routes, i + 1, host, path)

\* A plausible slip: the loop keeps scanning and the last match wins.
RECURSIVE match_route_last(_, _, _, _)
match_route_last(routes, i, host, path) ==
    IF i < 1 THEN None
    ELSE IF match_host(host, routes[i].host) /\ match_path(path, routes[i].path)
         THEN Some(routes[i])
         ELSE match_route_last(routes, i - 1, host, path)

match_route_mutant(routes, host, path) ==
    match_route_last(routes, Len(routes), host, path)

match_route(routes, host, path) == match_route_from(routes, 1, host, path)

(***************************************************************************)
(* Bytes of the characters, and base64 (URL_SAFE_NO_PAD).                  *)
(***************************************************************************)
\* Characters 32..95 and 97..126 in byte order.
AsciiLow ==
    <<
      " ", "!", "\"", "#", "$", "%", "&", "'", "(", ")", "*", "+",
      ",", "-", ".", "/", "0", "1", "2", "3", "4", "5", "6", "7",
      "8", "9", ":", ";", "<", "=", ">", "?", "@", "A", "B", "C",
      "D", "E", "F", "G", "H", "I", "J", "K", "L", "M", "N", "O",
      "P", "Q", "R", "S", "T", "U", "V", "W", "X", "Y", "Z", "[",
      "\\", "]", "^", "_" >>
AsciiHigh ==
    <<
      "a", "b", "c", "d", "e", "f", "g", "h", "i", "j", "k", "l",
      "m", "n", "o", "p", "q", "r", "s", "t", "u", "v", "w", "x",
      "y", "z", "{", "|", "}", "~" >>
UrlSafeAlphabet ==
    <<
      "A", "B", "C", "D", "E", "F", "G", "H", "I", "J", "K", "L",
      "M", "N", "O", "P", "Q", "R", "S", "T", "U", "V", "W", "X",
      "Y", "Z", "a", "b", "c", "d", "e", "f", "g", "h", "i", "j",
      "k", "l", "m", "n", "o", "p", "q", "r", "s", "t", "u", "v",
      "w", "x", "y", "z", "0", "1", "2", "3", "4", "5", "6", "7",
      "8", "9", "-", "_" >>

\* The byte of a character: printable ASCII, or one of the control
\* characters the model uses.
char_code(c) ==
    IF c = "\n" THEN 10
    ELSE IF c = "\t" THEN 9
    ELSE IF \E i \in 1..Len(AsciiLow) : AsciiLow[i] = c
         THEN 31 + (CHOOSE i \in 1..Len(AsciiLow) : AsciiLow[i] = c)
         ELSE 96 + (CHOOSE i \in 1..Len(AsciiHigh) : AsciiHigh[i] = c)

code_char(b) ==
    IF b = 10 THEN "\n"
    ELSE IF b = 9 THEN "\t"
    ELSE IF b <= 95 THEN AsciiLow[b - 31] ELSE AsciiHigh[b - 96]

bytes_of(s) == [i \in 1..Len(s) |-> char_code(s[i])]

sextet_char(n) == UrlSafeAlphabet[n + 1]
char_sextet(c) == (CHOOSE i \in 1..Len(UrlSafeAlphabet) : UrlSafeAlphabet[i] = c) - 1

\* URL_SAFE_NO_PAD.encode: three bytes become four characters; a tail of one
\* or two bytes becomes two or three characters, and no padding is appended.
RECURSIVE base64_encode_bytes(_)
base64_encode_bytes(b) ==
    IF Len(b) = 0 THEN <<>>
    ELSE IF Len(b) = 1
    THEN << sextet_char(b[1] \div 4), sextet_char((b[1] % 4) * 16) >>
    ELSE IF Len(b) = 2
    THEN << sextet_char(b[1] \div 4),
            sextet_char((b[1] % 4) * 16 + (b[2] \div 16)),
            sextet_char((b[2] % 16) * 4) >>
    ELSE << sextet_char(b[1] \div 4),
            sextet_char((b[1] % 4) * 16 + (b[2] \div 16)),
            sextet_char((b[2] % 16) * 4 + (b[3] \div 64)),
            sextet_char(b[3] % 64) >>
         \o base64_encode_bytes(SubSeq(b, 4, Len(b)))

\* The encoder with the standard alphabet's padding kept.
base64_encode_padded(input) ==
    LET out == base64_encode_bytes(bytes_of(input))
    IN  out \o [i \in 1..((4 - (Len(out) % 4)) % 4) |-> "="]

base64_url_encode(input) == base64_encode_bytes(bytes_of(input))

(***************************************************************************)
(* serde_json::Value and the typed requirement records (types.rs).         *)
(***************************************************************************)
JNull == [t |-> "null"]
JStr(s) == [t |-> "str", v |-> s]
JNum(n) == [t |-> "num", v |-> n]
JArr(a) == [t |-> "arr", v |-> a]
JObj(f) == [t |-> "obj", v |-> f]

\* Value::get(key): a member of an object, None on anything else.
json_get(val, key) ==
    IF val.t = "obj" /\ key \in DOMAIN val.v THEN Some(val.v[key]) ELSE None

\* Value::as_array / Value::as_str after Option::and_then.
as_array(opt) ==
    IF opt.some /\ opt.val.t = "arr" THEN Some(opt.val.v) ELSE None

Ok(x) == [ok |-> TRUE, val |-> x]
Err == [ok |-> FALSE]

\* serde's derived Deserialize reads a struct from a JSON object (unknown keys
\* ignored) or from a JSON array (fields by position, no more than the struct
\* has); anything else is an invalid type.
struct_fields(val, names) ==
    IF val.t = "obj" THEN Ok(val.v)
    ELSE IF val.t = "arr"
         THEN IF Len(val.v) > Len(names) THEN Err
              ELSE Ok([n \in {names[i] : i \in 1..Len(val.v)} |->
                         val.v[CHOOSE i \in 1..Len(val.v) : names[i] = n]])
         ELSE Err

\* A String field without a default: must be present and a JSON string.
string_field(fields, key) ==
    IF key \in DOMAIN fields /\ fields[key].t = "str"
    THEN Ok(fields[key].v) ELSE Err

\* An Option<String> field with #[serde(default)].
opt_string_field(fields, key) ==
    IF key \notin DOMAIN fields THEN Ok(None)
    ELSE IF fields[key].t = "null" THEN Ok(None)
    ELSE IF fields[key].t = "str" THEN Ok(Some(fields[key].v))
    ELSE Err

\* serde_json::from_value::<ScopeRequirement>
scope_requirement_from_value(val) ==
    LET f == struct_fields(val, <<"resource_type", "action", "resource_id">>) IN
    IF ~f.ok THEN Err
    ELSE LET rt == string_field(f.val, "resource_type")
             ac == string_field(f.val, "action")
             ri == opt_string_field(f.val, "resource_id")
         IN  IF rt.ok /\ ac.ok /\ ri.ok
             THEN Ok([resource_type |-> rt.val, action |-> ac.val,
                      resource_id |-> ri.val])
             ELSE Err

\* Vec<ScopeRequirement> from a JSON array: every element must convert.
RECURSIVE scope_requirements_from(_, _, _)
scope_requirements_from(arr, i, acc) ==
    IF i > Len(arr) THEN Ok(acc)
    ELSE LET r == scope_requirement_from_value(arr[i]) IN
         IF r.ok THEN scope_requirements_from(arr, i + 1, Append(acc, r.val))
         ELSE Err

\* An Option<Vec<ScopeRequirement>> field with #[serde(default)].
opt_scopes_field(fields, key) ==
    IF key \notin DOMAIN fields THEN Ok(None)
    ELSE IF fields[key].t = "null" THEN Ok(None)
    ELSE IF fields[key].t = "arr"
         THEN LET r == scope_requirements_from(fields[key].v, 1, <<>>) IN
              IF r.ok THEN Ok(Some(r.val)) ELSE Err
         ELSE Err

\* serde_json::from_value::<TeamRequirement>
team_requirement_from_value(val) ==
    LET f == struct_fields(val, <<"id", "name", "scopes">>) IN
    IF ~f.ok THEN Err
    ELSE LET id == opt_string_field(f.val, "id")
             nm == opt_string_field(f.val, "name")
             sc == opt_scopes_field(f.val, "scopes")
         IN  IF id.ok /\ nm.ok /\ sc.ok
             THEN Ok([id |-> id.val, name |-> nm.val, scopes |-> sc.val])
             ELSE Err

RECURSIVE team_requirements_from(_, _, _)
team_requirements_from(arr, i, acc) ==
    IF i > Len(arr) THEN Ok(acc)
    ELSE LET r == team_requirement_from_value(arr[i]) IN
         IF r.ok THEN team_requirements_from(arr, i + 1, Append(acc, r.val))
         ELSE Err

\* required.iter().filter_map(|v| v.as_str()...).collect()
RECURSIVE filter_map_as_str(_)
filter_map_as_str(arr) ==
    IF arr = <<>> THEN <<>>
    ELSE IF Head(arr).t = "str"
         THEN <<Head(arr).v>> \o filter_map_as_str(Tail(arr))
         ELSE filter_map_as_str(Tail(arr))

(***************************************************************************)
(* Policy evaluation (auth.rs).                                            *)
(***************************************************************************)
Authorized == [kind |-> "Authorized"]
Unauthenticated == [kind |-> "Unauthenticated"]
\* The reason is the format string's literal text and the value rendered
\* after it with {:?} (empty for a literal message).
Unauthorized(msg, dbg) == [kind |-> "Unauthorized", reason |-> [msg |-> msg, dbg |-> dbg]]
Error(msg) == [kind |-> "Error", reason |-> [msg |-> msg, dbg |-> <<>>]]

seq_contains(s, x) == \E i \in 1..Len(s) : s[i] = x

RECURSIVE has_any_role(_, _)
has_any_role(user_roles, required_roles) ==
    IF required_roles = <<>> THEN FALSE
    ELSE IF seq_contains(user_roles, Head(required_roles)) THEN TRUE
         ELSE has_any_role(user_roles, Tail(required_roles))

RECURSIVE has_any_permission(_, _)
has_any_permission(user_permissions, required_permissions) ==
    IF required_permissions = <<>> THEN FALSE
    ELSE IF seq_contains(user_permissions, Head(required_permissions)) THEN TRUE
         ELSE has_any_permission(user_permissions, Tail(required_permissions))

\* The loop below with the resource_id comparison dropped.
RECURSIVE scope_found_any_id(_, _)
scope_found_any_id(user_scopes, required_scope) ==
    IF user_scopes = <<>> THEN FALSE
    ELSE LET user_scope == Head(user_scopes) IN
         IF /\ user_scope.resource_type = required_scope.resource_type
            /\ user_scope.action = required_scope.action
         THEN TRUE
         ELSE scope_found_any_id(Tail(user_scopes), required_scope)

\* The inner loop of has_required_scopes: is there a user scope for this demand?
RECURSIVE scope_found(_, _)
scope_found(user_scopes, required_scope) ==
    IF user_scopes = <<>> THEN FALSE
    ELSE LET user_scope == Head(user_scopes) IN
         IF /\ user_scope.resource_type = required_scope.resource_type
            /\ user_scope.action = required_scope.action
            /\ (required_scope.resource_id.some
                  => user_scope.resource_id = required_scope.resource_id.val)
         THEN TRUE
         ELSE scope_found(Tail(user_scopes), required_scope)

RECURSIVE has_required_scopes(_, _)
has_required_scopes(user_scopes, required_scopes) ==
    IF required_scopes = <<>> THEN TRUE
    ELSE IF ~scope_found(user_scopes, Head(required_scopes)) THEN FALSE
         ELSE has_required_scopes(user_scopes, Tail(required_scopes))

\* session.user.teams.iter().flat_map(|team| team.scopes.clone()).collect()
RECURSIVE all_team_scopes(_)
all_team_scopes(teams) ==
    IF teams = <<>> THEN <<>>
    ELSE Head(teams).scopes \o all_team_scopes(Tail(teams))

\* One (team_req, user_team) iteration of has_team_access: does it return true?
team_grants_access(user_team, team_req) ==
    LET id_match == team_req.id.some /\ team_req.id.val = user_team.id
        name_match == team_req.name.some /\ team_req.name.val = user_team.name
    IN  /\ (id_match \/ name_match)
        /\ IF team_req.scopes.some
           THEN has_required_scopes(user_team.scopes, team_req.scopes.val)
           ELSE TRUE

\* The same iteration checking the inner scopes against every team's grants.
team_grants_access_union(user_teams, user_team, team_req) ==
    LET id_match == team_req.id.some /\ team_req.id.val = user_team.id
        name_match == team_req.name.some /\ team_req.name.val = user_team.name
    IN  /\ (id_match \/ name_match)
        /\ IF team_req.scopes.some
           THEN has_required_scopes(all_team_scopes(user_teams), team_req.scopes.val)
           ELSE TRUE

RECURSIVE has_team_access_from(_, _, _, _)
has_team_access_from(user_teams, required_teams, i, j) ==
    IF i > Len(required_teams) THEN FALSE
    ELSE IF j > Len(user_teams)
         THEN has_team_access_from(user_teams, required_teams, i + 1, 1)
         ELSE IF team_grants_access(user_teams[j], required_teams[i]) THEN TRUE
              ELSE has_team_access_from(user_teams, required_teams, i, j + 1)

has_team_access_union(user_teams, required_teams) ==
    \E i \in 1..Len(required_teams) : \E j \in 1..Len(user_teams) :
        team_grants_access_union(user_teams, user_teams[j], required_teams[i])

has_team_access(user_teams, required_teams) ==
    has_team_access_from(user_teams, required_teams, 1, 1)

\* The roles step reporting the roles the user holds instead of the required.
authorize_roles_reports_held(session, require) ==
    LET required == as_array(json_get(require, "roles")) IN
    IF required.some
    THEN IF ~has_any_role(session.user.roles, filter_map_as_str(required.val))
         THEN Some(Unauthorized("User does not have any of the required roles: ",
                                session.user.roles))
         ELSE None
    ELSE None

\* Each clause step of authorize: None when the step falls through, or the
\* AuthResult it returns.
authorize_roles(session, require) ==
    LET required == as_array(json_get(require, "roles")) IN
    IF required.some
    THEN LET required_roles == filter_map_as_str(required.val) IN
         IF ~has_any_role(session.user.roles, required_roles)
         THEN Some(Unauthorized("User does not have any of the required roles: ",
                                required_roles))
         ELSE None
    ELSE None

authorize_permissions(session, require) ==
    LET required == as_array(json_get(require, "permissions")) IN
    IF required.some
    THEN LET required_permissions == filter_map_as_str(required.val) IN
         IF ~has_any_permission(session.user.permissions, required_permissions)
         THEN Some(Unauthorized(
                 "User does not have any of the required permissions: ",
                 required_permissions))
         ELSE None
    ELSE None

authorize_scopes(session, require) ==
    LET required_scopes_array == as_array(json_get(require, "scopes")) IN
    IF required_scopes_array.some
    THEN LET required_scopes ==
                 scope_requirements_from(required_scopes_array.val, 1, <<>>) IN
         IF ~required_scopes.ok
         THEN Some(Error("Invalid scope requirement format"))
         ELSE IF ~has_required_scopes(all_team_scopes(session.user.teams),
                                      required_scopes.val)
              THEN Some(Unauthorized("User does not have the required scopes: ",
                                     required_scopes.val))
              ELSE None
    ELSE None

authorize_teams(session, require) ==
    LET required_teams_array == as_array(json_get(require, "teams")) IN
    IF required_teams_array.some
    THEN LET required_teams ==
                 team_requirements_from(required_teams_array.val, 1, <<>>) IN
         IF ~required_teams.ok
         THEN Some(Error("Invalid team requirement format"))
         ELSE IF ~has_team_access(session.user.teams, required_teams.val)
              THEN Some(Unauthorized(
                  "User does not have access through any of the required teams: ",
                  required_teams.val))
              ELSE None
    ELSE None

\* authorize with the permissions step left out.
authorize_skip_permissions(ctx) ==
    IF ~ctx.session.some THEN Unauthenticated
    ELSE IF ~ctx.matched_route.some THEN Error("No matching route found")
    ELSE LET session == ctx.session.val
             require == ctx.matched_route.val.require
             r == authorize_roles(session, require)
             s == authorize_scopes(session, require)
             t == authorize_teams(session, require)
         IN  IF r.some THEN r.val
             ELSE IF s.some THEN s.val
             ELSE IF t.some THEN t.val
             ELSE Authorized

authorize(ctx) ==
    IF ~ctx.session.some THEN Unauthenticated
    ELSE IF ~ctx.matched_route.some THEN Error("No matching route found")
    ELSE LET session == ctx.session.val
             require == ctx.matched_route.val.require
             r == authorize_roles(session, require)
             p == authorize_permissions(session, require)
             s == authorize_scopes(session, require)
             t == authorize_teams(session, require)
         IN  IF r.some THEN r.val
             ELSE IF p.some THEN p.val
             ELSE IF s.some THEN s.val
             ELSE IF t.some THEN t.val
             ELSE Authorized

(***************************************************************************)
(* Values the harnesses and the pipeline draw their inputs from.           *)
(***************************************************************************)
s_admin == <<"a", "d", "m", "i", "n">>
s_user == <<"u", "s", "e", "r">>
s_editor == <<"e", "d", "i", "t", "o", "r">>
s_read == <<"r", "e", "a", "d">>
s_write == <<"w", "r", "i", "t", "e">>
s_client == <<"c", "l", "i", "e", "n", "t">>
s_doc == <<"d", "o", "c">>
s_access == <<"a", "c", "c", "e", "s", "s">>
s_edit == <<"e", "d", "i", "t">>
s_c1 == <<"c", "1">>
s_c2 == <<"c", "2">>
s_team1 == <<"t", "e", "a", "m", "-", "1">>
s_team2 == <<"t", "e", "a", "m", "-", "2">>
s_alpha == <<"a", "l", "p", "h", "a">>
s_beta == <<"b", "e", "t", "a">>
s_u1 == <<"u", "1">>
s_u1_mail == <<"u", "1", "@", "x">>
s_tenant == <<"t">>
s_authority == <<"a">>
s_http == <<"h", "t", "t", "p">>
s_scheme_sep == <<":", "/", "/">>
s_callback_path == <<"/", "a", "u", "t", "h", "/", "c", "a", "l", "l", "b", "a", "c", "k", "?", "n", "e", "x", "t", "=">>
s_q_next == <<"?", "n", "e", "x", "t", "=">>
s_amp_next == <<"&", "n", "e", "x", "t", "=">>
s_session == <<"s", "e", "s", "s", "i", "o", "n">>
s_sid == <<"s", "i", "d">>
url_session == <<"h", "t", "t", "p", ":", "/", "/", "s">>
url_login == <<"h", "t", "t", "p", ":", "/", "/", "l">>
url_login_q == <<"h", "t", "t", "p", ":", "/", "/", "l", "?", "x", "=", "1">>
url_callback == <<"h", "t", "t", "p", ":", "/", "/", "c", "b">>
tok1 == <<"t", "1">>
tok2 == <<"t", "2">>
ck_session_t1 == <<"s", "e", "s", "s", "i", "o", "n", "=", "t", "1">>
ck_sid_t2 == <<"s", "i", "d", "=", "t", "2">>
ck_two == <<"x", "=", "1", ";", " ", "s", "e", "s", "s", "i", "o", "n", "=", "t", "2">>
ck_bare == <<"s", "e", "s", "s", "i", "o", "n">>
s_x == <<"x">>
s_unknown_host == <<"u", "n", "k", "n", "o", "w", "n", "-", "h", "o", "s", "t">>
s_https == <<"h", "t", "t", "p", "s">>
s_text_plain == <<"t", "e", "x", "t", "/", "p", "l", "a", "i", "n">>
s_comma == <<",">>
s_u2 == <<"u", "2">>
s_u2_mail == <<"u", "2", "@", "x">>
s_u3 == <<"u", "3">>
s_u3_mail == <<"u", "\n">>
s_forbidden == <<"F", "o", "r", "b", "i", "d", "d", "e", "n", ":", " ">>
s_internal == <<"I", "n", "t", "e", "r", "n", "a", "l", " ", "s", "e", "r", "v", "e", "r", " ", "e", "r", "r", "o", "r", ":", " ">>

\* Longest grant list of a team, longest top-level scopes clause, longest
\* teams clause and longest rule table the harnesses enumerate.
MaxGrants == 1
MaxDemands == 2
MaxTeamDemands == 2
MaxRules == 2

SeqsUpTo(S, n) == UNION {[1..k -> S] : k \in 0..n}

Scope(rt, rid, ac) == [resource_type |-> rt, resource_id |-> rid, action |-> ac]

SessionOf(id, email, roles, permissions, teams) ==
    [user |-> [id |-> id, email |-> email, roles |-> roles,
               permissions |-> permissions, teams |-> teams],
     tenant_id |-> s_tenant, authority |-> s_authority, redirect_url |-> None]

Session(roles, permissions, teams) ==
    SessionOf(s_u1, s_u1_mail, roles, permissions, teams)

\* The JSON of a scope demand; resource_id is left out, null or a string.
JScope(rt, ac) == JObj([resource_type |-> JStr(rt), action |-> JStr(ac)])
JScopeId(rt, ac, rid) ==
    JObj([resource_type |-> JStr(rt), action |-> JStr(ac), resource_id |-> rid])

Grants ==
    { Scope(s_client, s_c1, s_access), Scope(s_client, s_c2, s_access),
      Scope(s_doc, s_c1, s_access), Scope(s_client, s_c1, s_edit) }

Demands ==
    { JScope(s_client, s_access), JScopeId(s_client, s_access, JStr(s_c1)),
      JScopeId(s_doc, s_access, JStr(s_c2)), JScopeId(s_client, s_edit, JNull) }

\* The principal's teams: the two teams in either order, or one, or none,
\* each with a grant list out of GL.
TeamOrders ==
    LET t1 == [id |-> s_team1, name |-> s_alpha]
        t2 == [id |-> s_team2, name |-> s_beta]
    IN  { <<>>, <<t1>>, <<t2>>, <<t1, t2>>, <<t2, t1>> }

UserTeamsOver(GL) ==
    UNION { { [i \in 1..Len(o) |->
                 [id |-> o[i].id, name |-> o[i].name, is_owner |-> FALSE,
                  scopes |-> g[i]]] : g \in [1..Len(o) -> GL] }
            : o \in TeamOrders }

\* A requirement object with the given clauses; a clause that is "absent"
\* leaves its key out.
Absent == [t |-> "absent"]
Require(roles, permissions, scopes, teams) ==
    LET all == [roles |-> roles, permissions |-> permissions,
                scopes |-> scopes, teams |-> teams]
        keys == {k \in DOMAIN all : all[k] # Absent}
    IN  JObj([k \in keys |-> all[k]])

Route(host, path, require) ==
    [id |-> None, host |-> host, path |-> path, require |-> require]

(***************************************************************************)
(* Harness: authorize applied to one (session, requirement) pair.          *)
(***************************************************************************)
HarnessIdle ==
    /\ config = Idle /\ cache = Idle /\ now = Idle /\ env = Idle /\ req = Idle
    /\ server = Idle /\ hist = Idle

CallAuthorize ==
    /\ args.fn = "authorize" /\ ret = Idle
    /\ ret' = authorize([session |-> Some(args.session),
                         matched_route |->
                             Some(Route(<<"a">>, <<"/">>, args.require))])
    /\ UNCHANGED <<pipeline_vars, args, hist>>

\* Roles and permissions in every combination, with small scopes and teams
\* clauses beside them.
ClauseRoles ==
    { Absent, JNull, JArr(<<>>), JArr(<<JStr(s_admin)>>),
      JArr(<<JStr(s_admin), JStr(s_editor)>>),
      JArr(<<JStr(s_editor), JStr(s_user)>>) }
ClausePermissions ==
    { Absent, JNull, JArr(<<>>), JArr(<<JStr(s_read)>>),
      JArr(<<JStr(s_write), JStr(s_read)>>) }
ClauseScopesSmall ==
    { Absent, JArr(<<>>), JArr(<<JScope(s_client, s_access)>>) }
ClauseTeamsSmall ==
    { Absent, JArr(<<>>), JArr(<<JObj([id |-> JStr(s_team1)])>>) }

AuthzSessions ==
    { Session(r, p, t) :
        r \in {<<>>, <<s_admin>>, <<s_user>>, <<s_user, s_admin>>},
        p \in {<<>>, <<s_read>>, <<s_write>>},
        t \in UserTeamsOver({<<>>, <<Scope(s_client, s_c1, s_access)>>}) }

AuthzRequires ==
    { Require(r, p, s, t) : r \in ClauseRoles, p \in ClausePermissions,
                            s \in ClauseScopesSmall, t \in ClauseTeamsSmall }

InitAuthz ==
    /\ HarnessIdle
    /\ args \in [fn : {"authorize"}, session : AuthzSessions, require : AuthzRequires]
    /\ ret = Idle

SpecAuthz == InitAuthz /\ [][CallAuthorize]_vars

(***************************************************************************)
(* What it means for a principal to satisfy a clause, stated on the JSON   *)
(* of a well-formed requirement with sets and quantifiers.                 *)
(***************************************************************************)
HasStr(obj, key) == key \in DOMAIN obj.v /\ obj.v[key].t = "str"
HasArr(obj, key) == key \in DOMAIN obj.v /\ obj.v[key].t = "arr"
Present(require, key) == key \in DOMAIN require.v /\ require.v[key].t # "null"

Listed(clause) == {clause.v[i].v : i \in 1..Len(clause.v)}
Held(names) == {names[i] : i \in 1..Len(names)}

GrantMatches(grant, demand) ==
    /\ grant.resource_type = demand.v.resource_type.v
    /\ grant.action = demand.v.action.v
    /\ (HasStr(demand, "resource_id") => grant.resource_id = demand.v.resource_id.v)

TeamGrants(team) == {team.scopes[k] : k \in 1..Len(team.scopes)}
UnionGrants(teams) == UNION {TeamGrants(teams[j]) : j \in 1..Len(teams)}

DemandsMet(grants, demands) ==
    \A i \in 1..Len(demands) : \E g \in grants : GrantMatches(g, demands[i])

TeamMeets(team, demand) ==
    /\ \/ HasStr(demand, "id") /\ demand.v.id.v = team.id
       \/ HasStr(demand, "name") /\ demand.v.name.v = team.name
    /\ (HasArr(demand, "scopes")
          => DemandsMet(TeamGrants(team), demand.v.scopes.v))

ClauseSatisfied(session, key, clause) ==
    CASE key = "roles" -> Listed(clause) \cap Held(session.user.roles) # {}
      [] key = "permissions" ->
             Listed(clause) \cap Held(session.user.permissions) # {}
      [] key = "scopes" -> DemandsMet(UnionGrants(session.user.teams), clause.v)
      [] key = "teams" ->
             \E i \in 1..Len(clause.v) : \E j \in 1..Len(session.user.teams) :
                 TeamMeets(session.user.teams[j], clause.v[i])

ClauseKeys == {"roles", "permissions", "scopes", "teams"}

Satisfies(session, require) ==
    \A key \in ClauseKeys :
        Present(require, key) => ClauseSatisfied(session, key, require.v[key])

AuthorizeOn(session, require) ==
    authorize([session |-> Some(session),
               matched_route |-> Some(Route(<<"a">>, <<"/">>, require))])

ClauseValues(key) ==
    CASE key = "roles" -> ClauseRoles \ {Absent}
      [] key = "permissions" -> ClausePermissions \ {Absent}
      [] key = "scopes" -> ClauseScopesSmall \ {Absent}
      [] key = "teams" -> ClauseTeamsSmall \ {Absent}

\* C7: for every principal and every well-formed requirement, authorize
\* returns Authorized exactly when the principal satisfies every present
\* clause (roles: holds one listed role; permissions: holds one listed
\* permission; an empty list is never satisfied), and adding a clause to the
\* requirement never turns an Unauthorized result into Authorized.
C7_PolicyConjunction ==
    ret # Idle =>
        /\ (ret = Authorized) <=> Satisfies(args.session, args.require)
        /\ ret.kind = "Unauthorized" =>
             \A key \in ClauseKeys \ DOMAIN args.require.v :
                 \A clause \in ClauseValues(key) :
                     AuthorizeOn(args.session,
                         JObj([k \in DOMAIN args.require.v \cup {key} |->
                                 IF k = key THEN clause ELSE args.require.v[k]]))
                       # Authorized

\* A requirement with all four clauses present, each satisfied, was authorized.
C7_Witness ==
    /\ ret = Authorized
    /\ \A key \in ClauseKeys :
          Present(args.require, key) /\ Len(args.require.v[key].v) > 0

(***************************************************************************)
(* Harness: authorize on a requirement that has only a scopes clause.      *)
(***************************************************************************)
InitScopes ==
    /\ HarnessIdle
    /\ args \in [fn : {"authorize"},
                 session : { Session(<<>>, <<>>, t) :
                               t \in UserTeamsOver(SeqsUpTo(Grants, MaxGrants)) },
                 require : { Require(Absent, Absent, JArr(d), Absent) :
                               d \in SeqsUpTo(Demands, MaxDemands) }]
    /\ ret = Idle

SpecScopes == InitScopes /\ [][CallAuthorize]_vars

\* C8: a top-level scopes clause is satisfied iff every demand has, somewhere
\* among the grants of all of the principal's teams, a grant with the same
\* resource_type and action and, when the demand names a resource_id, the same
\* resource_id; different demands may be met by different teams.
C8_ScopesOverAllTeams ==
    ret # Idle =>
        LET teams == args.session.user.teams
            demands == args.require.v.scopes.v
        IN  (ret = Authorized) <=>
              \A i \in 1..Len(demands) :
                \E j \in 1..Len(teams) : \E k \in 1..Len(teams[j].scopes) :
                  LET g == teams[j].scopes[k]
                      d == demands[i].v
                  IN  /\ g.resource_type = d.resource_type.v
                      /\ g.action = d.action.v
                      /\ ("resource_id" \in DOMAIN d /\ d.resource_id.t = "str"
                            => g.resource_id = d.resource_id.v)

\* Two demands were met, no single team meets both, and one of them names no
\* resource_id.
C8_Witness ==
    /\ ret = Authorized
    /\ Len(args.require.v.scopes.v) = 2
    /\ \E i \in 1..2 : ~HasStr(args.require.v.scopes.v[i], "resource_id")
    /\ \A j \in 1..Len(args.session.user.teams) :
          ~DemandsMet(TeamGrants(args.session.user.teams[j]),
                      args.require.v.scopes.v)

(***************************************************************************)
(* Harness: authorize on a requirement that has only a teams clause.       *)
(***************************************************************************)
TeamGrantLists ==
    LET ga == Scope(s_client, s_c1, s_access)
        ge == Scope(s_client, s_c1, s_edit)
    IN  { <<>>, <<ga>>, <<ge>>, <<ga, ge>> }

TeamDemands ==
    LET ids == {Absent, JStr(s_team1)}
        names == {Absent, JNull, JStr(s_beta)}
        inner == { Absent, JArr(<<JScope(s_client, s_access)>>),
                   JArr(<<JScope(s_client, s_access), JScope(s_client, s_edit)>>) }
    IN  { LET all == [id |-> i, name |-> n, scopes |-> s]
          IN  JObj([k \in {k \in DOMAIN all : all[k] # Absent} |-> all[k]])
          : i \in ids, n \in names, s \in inner }

InitTeams ==
    /\ HarnessIdle
    /\ args \in [fn : {"authorize"},
                 session : { Session(<<>>, <<>>, t) :
                               t \in UserTeamsOver(TeamGrantLists) },
                 require : { Require(Absent, Absent, Absent, JArr(d)) :
                               d \in SeqsUpTo(TeamDemands, MaxTeamDemands) }]
    /\ ret = Idle

SpecTeams == InitTeams /\ [][CallAuthorize]_vars

\* C9: a teams clause is satisfied iff some demand d and some team t of the
\* principal agree on id or on name (whichever d carries) and, when d has an
\* inner scope list, every inner demand is matched by a grant of t itself;
\* grants of the principal's other teams do not count.
C9_TeamOwnGrants ==
    ret # Idle =>
        LET teams == args.session.user.teams
            demands == args.require.v.teams.v
        IN  (ret = Authorized) <=>
              \E i \in 1..Len(demands) : \E j \in 1..Len(teams) :
                LET d == demands[i].v
                    t == teams[j]
                IN  /\ \/ "id" \in DOMAIN d /\ d.id.t = "str" /\ d.id.v = t.id
                       \/ "name" \in DOMAIN d /\ d.name.t = "str"
                            /\ d.name.v = t.name
                    /\ ("scopes" \in DOMAIN d =>
                          \A m \in 1..Len(d.scopes.v) :
                            \E k \in 1..Len(t.scopes) :
                              GrantMatches(t.scopes[k], d.scopes.v[m]))

\* The principal is in the demanded team and holds every inner scope, but
\* only across two teams: refused.
C9_Witness ==
    /\ ret # Idle /\ ret.kind = "Unauthorized"
    /\ \E i \in 1..Len(args.require.v.teams.v) :
         \E j \in 1..Len(args.session.user.teams) :
           LET d == args.require.v.teams.v[i]
               t == args.session.user.teams[j]
           IN  /\ HasStr(d, "id") /\ d.v.id.v = t.id
               /\ HasArr(d, "scopes")
               /\ DemandsMet(UnionGrants(args.session.user.teams), d.v.scopes.v)
               /\ ~DemandsMet(TeamGrants(t), d.v.scopes.v)

(***************************************************************************)
(* Harness: match_route on one (rule table, host, path) triple.            *)
(***************************************************************************)
h_ab == <<"a", ".", "b">>
h_b == <<"b">>
h_cab == <<"c", ".", "a", ".", "b">>
h_xb == <<"x", "b">>
hp_star_b == <<"*", ".", "b">>
hp_star_ab == <<"*", ".", "a", ".", "b">>
p_root == <<"/">>
p_a == <<"/", "a">>
p_ab == <<"/", "a", "b">>
pp_all == <<"/", "*">>
pp_a_star == <<"/", "a", "*">>

RequireAdmin == Require(JArr(<<JStr(s_admin)>>), Absent, Absent, Absent)

MatchRules ==
    { Route(h, p, RequireAdmin) :
        h \in {h_ab, hp_star_b, hp_star_ab}, p \in {p_root, p_a, pp_all, pp_a_star} }

CallMatchRoute ==
    /\ args.fn = "match_route" /\ ret = Idle
    /\ ret' = match_route(args.routes, args.host, args.path)
    /\ UNCHANGED <<pipeline_vars, args, hist>>

InitMatch ==
    /\ HarnessIdle
    /\ args \in [fn : {"match_route"}, routes : SeqsUpTo(MatchRules, MaxRules),
                 host : {h_ab, h_b, h_cab, h_xb}, path : {p_root, p_a, p_ab}]
    /\ ret = Idle

SpecMatch == InitMatch /\ [][CallMatchRoute]_vars

RuleMatches(rule, host, path) ==
    match_host(host, rule.host) /\ match_path(path, rule.path)

\* C10: match_route returns the first rule in table order whose host pattern
\* and path pattern both match, and none exactly when no rule matches both;
\* among several matching rules the earliest wins.
C10_FirstMatchWins ==
    ret # Idle =>
        LET routes == args.routes
            hits == {i \in 1..Len(routes) :
                       RuleMatches(routes[i], args.host, args.path)}
        IN  IF hits = {} THEN ret = None
            ELSE ret = Some(routes[CHOOSE i \in hits : \A j \in hits : i <= j])

\* A wildcard rule placed first won over a later rule that matches the same
\* request with a literal host and a literal path.
C10_Witness ==
    /\ ret # Idle /\ ret.some
    /\ Len(args.routes) = 2
    /\ ret.val = args.routes[1]
    /\ args.routes[1].host = hp_star_b /\ args.routes[1].path = pp_all
    /\ args.routes[2].host = args.host /\ args.routes[2].path = args.path

(***************************************************************************)
(* Login redirect and cookie extraction (auth.rs).                         *)
(***************************************************************************)
\* create_login_redirect with the separator chosen the other way round.
create_login_redirect_swapped(login_url, original_url) ==
    LET encoded_url == base64_url_encode(original_url) IN
    IF contains_char(login_url, "?")
    THEN login_url \o s_q_next \o encoded_url
    ELSE login_url \o s_amp_next \o encoded_url

create_login_redirect(login_url, original_url) ==
    LET encoded_url == base64_url_encode(original_url) IN
    IF contains_char(login_url, "?")
    THEN login_url \o s_amp_next \o encoded_url
    ELSE login_url \o s_q_next \o encoded_url

\* str::find(char): the first position of c, 1-based.
find_char(s, c) ==
    IF contains_char(s, c)
    THEN Some(CHOOSE i \in 1..Len(s) :
                  s[i] = c /\ \A j \in 1..(i - 1) : s[j] # c)
    ELSE None

RECURSIVE split_char(_, _)
split_char(s, c) ==
    LET at == find_char(s, c) IN
    IF at.some
    THEN <<SubSeq(s, 1, at.val - 1)>> \o split_char(SubSeq(s, at.val + 1, Len(s)), c)
    ELSE <<s>>

is_whitespace(c) == c \in {" ", "\t", "\n"}

RECURSIVE trim_start(_)
trim_start(s) ==
    IF s # <<>> /\ is_whitespace(Head(s)) THEN trim_start(Tail(s)) ELSE s

RECURSIVE trim_end(_)
trim_end(s) ==
    IF s # <<>> /\ is_whitespace(s[Len(s)])
    THEN trim_end(SubSeq(s, 1, Len(s) - 1)) ELSE s

trim(s) == trim_end(trim_start(s))

\* The loop of extract_session_token over the pieces of the Cookie header.
RECURSIVE token_from_cookies(_, _)
token_from_cookies(cookies, cookie_name) ==
    IF cookies = <<>> THEN None
    ELSE LET cookie == trim(Head(cookies))
             pos == find_char(cookie, "=")
         IN  IF pos.some /\ SubSeq(cookie, 1, pos.val - 1) = cookie_name
             THEN Some(SubSeq(cookie, pos.val + 1, Len(cookie)))
             ELSE token_from_cookies(Tail(cookies), cookie_name)

\* headers.get(COOKIE) is None when the request has no Cookie header.
extract_session_token(cookie_header, cookie_name) ==
    IF ~cookie_header.some THEN None
    ELSE token_from_cookies(split_char(cookie_header.val, ";"), cookie_name)

(***************************************************************************)
(* Session cache: InMemoryCache, and the TTL of a token (cache.rs).        *)
(***************************************************************************)
\* The 5 minute TTL of a token that carries no usable expiry.
DefaultTtl == 300
\* The exp claim of the one token of the model that is a JWT, and the last
\* second the clock reaches.
JwtExp == 1
MaxTime == 2

\* jsonwebtoken's decode of the token, signature and exp validation off: the
\* claims of a token that is a JWT, None for one that is not.
jwt_claims(token) ==
    IF token = tok1 THEN Some([exp |-> Some(JwtExp)]) ELSE None

\* Lines 91-112 of extract_jwt_expiration: the time left of the decoded
\* claims at the whole second secs.
remaining_secs(claims, secs) ==
    IF ~claims.some THEN None
    ELSE IF ~claims.val.exp.some THEN None
    ELSE IF claims.val.exp.val <= secs THEN None
    ELSE Some(claims.val.exp.val - secs)

extract_jwt_expiration(token, time) == remaining_secs(jwt_claims(token), time)

\* A cache whose entries never run out.
never_expired(expiry, time) == TRUE

\* expiry.duration_since(now) is Ok when expiry is not before now.
not_expired(expiry, time) == expiry >= time

\* A purge that empties the map.
clean_everything(entries, time) == [t \in {} |-> None]

\* InMemoryCache::clean_expired
clean_expired(entries, time) ==
    [t \in {k \in DOMAIN entries : not_expired(entries[k].expiry, time)} |->
        entries[t]]

\* The read half of InMemoryCache::get, after clean_expired.
cache_lookup(entries, token, time) ==
    IF token \in DOMAIN entries /\ not_expired(entries[token].expiry, time)
    THEN Some(entries[token].session)
    ELSE None

\* A set that stores the session under every token of the map.
cache_set_every(entries, token, session, ttl, time) ==
    [t \in DOMAIN entries \cup {token} |->
        [session |-> session, expiry |-> time + ttl]]

\* InMemoryCache::set
cache_set(entries, token, session, ttl, time) ==
    [t \in DOMAIN entries \cup {token} |->
        IF t = token THEN [session |-> session, expiry |-> time + ttl]
        ELSE entries[t]]

\* A remove that empties the whole map.
cache_remove_all(entries, token) ==
    [t \in {} |-> None]

\* InMemoryCache::remove
cache_remove(entries, token) ==
    [t \in DOMAIN entries \ {token} |-> entries[t]]

\* The whole of InMemoryCache::get at one reading of the clock.
cache_get(entries, token, time) ==
    cache_lookup(clean_expired(entries, time), token, time)

(***************************************************************************)
(* Configuration: providers, validation, load (config_provider.rs,         *)
(* config.rs).                                                             *)
(***************************************************************************)
Config(session_url, login_redirect, routes, cookie_name) ==
    [auth |-> [session_url |-> session_url, login_redirect |-> login_redirect],
     routes |-> routes, cookie_name |-> cookie_name]

\* ConfigManager::new
EmptyConfig == Config(<<>>, <<>>, <<>>, None)

has_requirements(require) ==
    \/ json_get(require, "roles").some
    \/ json_get(require, "permissions").some
    \/ json_get(require, "scopes").some
    \/ json_get(require, "teams").some

validate_config(c) ==
    /\ c.auth.session_url # <<>>
    /\ c.auth.login_redirect # <<>>
    /\ c.routes # <<>>
    /\ \A i \in 1..Len(c.routes) :
          c.routes[i].host # <<>> /\ has_requirements(c.routes[i].require)

\* What ConfigManager::load_config stores for a configuration the provider
\* returned.
with_default_cookie(c) ==
    [c EXCEPT !.cookie_name =
        IF c.cookie_name.some THEN c.cookie_name ELSE Some(s_session)]

\* ConfigManager::get_cookie_name
get_cookie_name(c) ==
    IF c.cookie_name.some THEN c.cookie_name.val ELSE s_session

(***************************************************************************)
(* Responses of the forward-auth handler (proxy.rs).  A response is        *)
(* [status, headers, body]; headers is a set of <<name, value>> pairs and  *)
(* body the sequence of the pieces formatted into it.                      *)
(***************************************************************************)
\* http::HeaderValue accepts tab and every byte from 32 up except 127.
header_value_valid(s) ==
    \A i \in 1..Len(s) :
        LET b == char_code(s[i]) IN (b >= 32 /\ b # 127) \/ b = 9

RECURSIVE join(_, _)
join(list, sep) ==
    IF list = <<>> THEN <<>>
    ELSE IF Len(list) = 1 THEN list[1]
    ELSE list[1] \o sep \o join(Tail(list), sep)

\* An unmatched request answered as an anonymous principal.
pass_through_anonymous ==
    [status |-> 200, headers |-> {<<"X-Auth-User-Id", <<>> >>}, body |-> <<>>]

\* No matching route: 200 with an empty body.
pass_through_response == [status |-> 200, headers |-> {}, body |-> <<>>]

\* A redirect answered 302 Found.
redirect_response_found(url) ==
    [status |-> 302, headers |-> {<<"location", url>>}, body |-> <<>>]

\* axum's Redirect::to answers 303 See Other with the URL in Location.
redirect_response(url) ==
    [status |-> 303, headers |-> {<<"location", url>>}, body |-> <<>>]

identity_headers(user) ==
    {<<"X-Auth-User-Id", user.id>>, <<"X-Auth-User-Email", user.email>>}
    \cup (IF user.roles # <<>>
          THEN {<<"X-Auth-User-Roles", join(user.roles, s_comma)>>} ELSE {})
    \cup (IF user.permissions # <<>>
          THEN {<<"X-Auth-User-Permissions", join(user.permissions, s_comma)>>}
          ELSE {})

\* The Authorized arm: the builder keeps the first header error and
\* body(..).unwrap() panics on it, so there is no response (None).
authorized_response(user) ==
    LET hs == identity_headers(user) IN
    IF \A h \in hs : header_value_valid(h[2])
    THEN Some([status |-> 200, headers |-> hs, body |-> <<>>])
    ELSE None

forbidden_response(reason) ==
    [status |-> 403, headers |-> {<<"content-type", s_text_plain>>},
     body |-> <<s_forbidden, reason>>]

internal_error_response(reason) ==
    [status |-> 500, headers |-> {<<"content-type", s_text_plain>>},
     body |-> <<s_internal, reason>>]

\* The match below with the Error arm answering like the Authorized one.
response_for_error_allows(result, session, login_redirect, effective_original_url) ==
    CASE result.kind \in {"Authorized", "Error"} -> authorized_response(session.user)
      [] result.kind = "Unauthorized" -> Some(forbidden_response(result.reason))
      [] result.kind = "Unauthenticated" ->
             Some(redirect_response(
                 create_login_redirect(login_redirect, effective_original_url)))

\* The arm of `match state.auth_service.authorize(&ctx)` for a result.
response_for(result, session, login_redirect, effective_original_url) ==
    CASE result.kind = "Authorized" -> authorized_response(session.user)
      [] result.kind = "Unauthorized" -> Some(forbidden_response(result.reason))
      [] result.kind = "Unauthenticated" ->
             Some(redirect_response(
                 create_login_redirect(login_redirect, effective_original_url)))
      [] result.kind = "Error" -> Some(internal_error_response(result.reason))

\* query.forwarded_x.clone().unwrap_or_else(|| headers.get(..).unwrap_or(default))
forwarded(query_value, header_value, default) ==
    IF query_value.some THEN query_value.val
    ELSE IF header_value.some THEN header_value.val
    ELSE default

effective_url(callback_domain, original_url) ==
    IF callback_domain.some
    THEN callback_domain.val \o s_callback_path \o base64_url_encode(original_url)
    ELSE original_url

(***************************************************************************)
(* The forward-auth service: startup, reloads, the clock, and requests     *)
(* stepping through handle_forward_auth from one await to the next.        *)
(***************************************************************************)
Slots == {"r1"}

RequireUser == Require(JArr(<<JStr(s_user)>>), Absent, Absent, Absent)
\* A scopes list whose entry is a string: no ScopeRequirement parses from it.
RequireBadScopes == Require(Absent, Absent, JArr(<<JStr(s_x)>>), Absent)

\* What the provider can hand back: two tables that validate, one with no
\* route (rejected by validate_config), or a read failure.
ConfigAdminOnly ==
    Config(url_session, url_login, <<Route(h_ab, pp_all, RequireAdmin)>>, None)
ConfigTwoRules ==
    Config(url_session, url_login_q,
           <<Route(hp_star_ab, pp_a_star, RequireBadScopes),
             Route(h_ab, pp_all, RequireUser)>>,
           Some(s_sid))
ConfigNoRoutes == Config(url_session, url_login, <<>>, None)
Provided == {Err} \cup {Ok(c) : c \in {ConfigAdminOnly, ConfigTwoRules, ConfigNoRoutes}}

\* A load_config that stores whatever the provider read before validating it.
load_config_stores_first(current, provided) ==
    IF provided.ok
    THEN [ok |-> validate_config(provided.val),
          config |-> with_default_cookie(provided.val)]
    ELSE [ok |-> FALSE, config |-> current]

\* ConfigManager::load_config: on success the stored configuration is
\* replaced; on any failure it is left as it was.
load_config(current, provided) ==
    IF provided.ok /\ validate_config(provided.val)
    THEN [ok |-> TRUE, config |-> with_default_cookie(provided.val)]
    ELSE [ok |-> FALSE, config |-> current]

\* AUTHGATE_CACHE_ENABLED and AUTHGATE_CALLBACK_DOMAIN.
Envs == [cache_enabled : BOOLEAN, callback_domain : {None, Some(url_callback)}]

sess_admin == SessionOf(s_u1, s_u1_mail, <<s_admin, s_user>>, <<>>, <<>>)
sess_user == SessionOf(s_u2, s_u2_mail, <<s_user>>, <<s_read>>, <<>>)
\* A session whose e-mail holds a line feed, as a JSON string may.
sess_linefeed == SessionOf(s_u3, s_u3_mail, <<s_admin>>, <<>>, <<>>)

\* What the identity service call can come back with.
IdentityReplies ==
    {[kind |-> "transport"], [kind |-> "status"], [kind |-> "unparsable"]}
    \cup {[kind |-> "session", session |-> x] :
            x \in {sess_admin, sess_user, sess_linefeed}}

\* The query parameters and headers of a forward-auth request.
Input(q_host, h_host, q_uri, h_uri, q_proto, h_proto, cookie) ==
    [q_host |-> q_host, h_host |-> h_host, q_uri |-> q_uri, h_uri |-> h_uri,
     q_proto |-> q_proto, h_proto |-> h_proto, cookie |-> cookie]

RequestInputs ==
    { Input(None, None, None, None, None, None, Some(ck_session_t1)),
      Input(Some(h_b), Some(h_ab), None, Some(p_a), None, None, Some(ck_sid_t2)),
      Input(Some(h_ab), None, None, None, None, None, None),
      Input(Some(h_ab), None, None, None, None, None, Some(ck_session_t1)),
      Input(Some(h_ab), Some(h_b), None, Some(p_a), None, Some(s_https), Some(ck_two)),
      Input(Some(h_ab), None, Some(p_a), Some(p_root), None, None, Some(ck_sid_t2)),
      Input(None, Some(h_cab), Some(p_a), None, Some(s_http), Some(s_https), Some(ck_sid_t2)),
      Input(None, Some(h_cab), None, Some(p_a), None, None, Some(ck_bare)) }

NoRequest ==
    [pc |-> "idle", input |-> None, original_url |-> <<>>,
     effective_original_url |-> <<>>, matched_route |-> None,
     session_token |-> None, config |-> None, reply |-> None,
     session |-> None, auth_result |-> None, response |-> None]

\* The request once the handler has returned resp (None: it panicked).
responded(q, resp) ==
    [q EXCEPT !.response = resp, !.pc = IF resp.some THEN "done" ELSE "panicked"]

\* Lines 135-193: the Ok arm, with what authorize said.
authorized_as(q, session, result) ==
    responded([q EXCEPT !.session = Some(session), !.auth_result = Some(result)],
              response_for(result, session, q.config.val.auth.login_redirect,
                           q.effective_original_url))

\* The handler letting the request through when the session result is Err.
finish_fail_open(r, session_result) ==
    IF session_result.ok
    THEN authorized_as(req[r], session_result.val,
                       authorize([session |-> Some(session_result.val),
                                  matched_route |-> req[r].matched_route]))
    ELSE responded(req[r], Some(pass_through_response))

\* Lines 134-203: the handler from the session result to its response.
finish(r, session_result) ==
    IF session_result.ok
    THEN authorized_as(req[r], session_result.val,
                       authorize([session |-> Some(session_result.val),
                                  matched_route |-> req[r].matched_route]))
    ELSE responded(req[r],
                   Some(redirect_response(create_login_redirect(
                       req[r].config.val.auth.login_redirect,
                       req[r].effective_original_url))))

Init ==
    /\ config = EmptyConfig
    /\ cache = [t \in {} |-> None]
    /\ now = 0
    /\ env \in Envs
    /\ req = [r \in Slots |-> NoRequest]
    /\ server = "boot"
    /\ args = Idle /\ ret = Idle /\ hist = Idle

\* A main that logs the error of the first load and goes on.
after_first_load_serves(ok) == "serving"

\* main.rs:103-104: `config_manager.load_config().await?`.
after_first_load(ok) == IF ok THEN "serving" ELSE "exited"

\* main: the first load_config()? ; a failure ends the process.
Startup ==
    /\ server = "boot"
    /\ \E provided \in Provided :
          LET loaded == load_config(config, provided) IN
          /\ config' = loaded.config
          /\ server' = after_first_load(loaded.ok)
    /\ UNCHANGED <<cache, now, env, req, harness_vars>>

\* The periodic reload and the reload after an admin mutation: an error is
\* logged and the table stays.
Reload ==
    /\ server = "serving"
    /\ \E provided \in Provided : config' = load_config(config, provided).config
    /\ UNCHANGED <<cache, now, env, req, server, harness_vars>>

Tick ==
    /\ server = "serving"
    /\ now < MaxTime
    /\ now' = now + 1
    /\ UNCHANGED <<config, cache, env, req, server, harness_vars>>

\* Lines 36-84: the request's URL and the rule matched against the table as
\* it is now.
Receive(r) ==
    /\ server = "serving"
    /\ req[r].pc \in {"idle", "done", "panicked", "cancelled"}
    /\ \E input \in RequestInputs :
          LET host == forwarded(input.q_host, input.h_host, s_unknown_host)
              path == forwarded(input.q_uri, input.h_uri, p_root)
              proto == forwarded(input.q_proto, input.h_proto, s_http)
              original_url == proto \o s_scheme_sep \o host \o path
          IN  req' = [req EXCEPT ![r] =
                  [NoRequest EXCEPT
                      !.pc = "get_cookie_name",
                      !.input = Some(input),
                      !.original_url = original_url,
                      !.effective_original_url =
                          effective_url(env.callback_domain, original_url),
                      !.matched_route = match_route(config.routes, host, path)]]
    /\ UNCHANGED <<config, cache, now, env, server, harness_vars>>

\* Lines 87-114: the cookie name as configured now, the token, and the two
\* early exits.
GetCookieName(r) ==
    /\ req[r].pc = "get_cookie_name"
    /\ LET q == req[r]
           token == extract_session_token(q.input.val.cookie, get_cookie_name(config))
       IN  req' = [req EXCEPT ![r] =
               IF ~q.matched_route.some
               THEN [q EXCEPT !.session_token = token,
                              !.response = Some(pass_through_response),
                              !.pc = "done"]
               ELSE [q EXCEPT !.session_token = token,
                              !.pc = IF token.some THEN "get_config"
                                     ELSE "get_config_login"]]
    /\ UNCHANGED <<config, cache, now, env, server, harness_vars>>

\* Lines 116-121.
GetConfigLogin(r) ==
    /\ req[r].pc = "get_config_login"
    /\ req' = [req EXCEPT ![r] =
           [req[r] EXCEPT !.config = Some(config),
                     !.response = Some(redirect_response(create_login_redirect(
                         config.auth.login_redirect, req[r].effective_original_url))),
                     !.pc = "done"]]
    /\ UNCHANGED <<config, cache, now, env, server, harness_vars>>

\* A validate_session that calls the identity service without asking the
\* cache.
validate_session_begins_identity(cache_enabled) == "identity"

\* Lines 56-64 of validate_session: where it begins.
validate_session_begins(cache_enabled) ==
    IF cache_enabled THEN "cache_clean" ELSE "identity"

\* Line 125, and the branch on cache_enabled that opens validate_session.
GetConfig(r) ==
    /\ req[r].pc = "get_config"
    /\ req' = [req EXCEPT ![r] =
           [req[r] EXCEPT !.config = Some(config),
                     !.pc = validate_session_begins(env.cache_enabled)]]
    /\ UNCHANGED <<config, cache, now, env, server, harness_vars>>

\* InMemoryCache::get, first half: expired entries leave under the write lock.
CacheClean(r) ==
    /\ req[r].pc = "cache_clean"
    /\ cache' = clean_expired(cache, now)
    /\ req' = [req EXCEPT ![r].pc = "cache_read"]
    /\ UNCHANGED <<config, now, env, server, harness_vars>>

\* InMemoryCache::get, second half: a hit ends validate_session with the
\* cached session.
CacheRead(r) ==
    /\ req[r].pc = "cache_read"
    /\ LET hit == cache_lookup(cache, req[r].session_token.val, now) IN
       req' = [req EXCEPT ![r] =
                  IF hit.some THEN finish(r, Ok(hit.val))
                  ELSE [req[r] EXCEPT !.pc = "identity"]]
    /\ UNCHANGED <<config, cache, now, env, server, harness_vars>>

\* validate_session without the is_success check: the body of an error
\* status is parsed like any other.
session_result_any_status(reply) ==
    IF reply.kind = "session" THEN Ok(reply.session)
    ELSE IF reply.kind = "status" THEN Ok(sess_user)
    ELSE Err

\* Lines 68-96 of validate_session: what the call's outcome makes of it.
session_result_of(reply) ==
    IF reply.kind = "session" THEN Ok(reply.session) ELSE Err

\* The identity call returns.  With the cache enabled a session is stored
\* before validate_session returns it.
IdentityReply(r) ==
    /\ req[r].pc = "identity"
    /\ \E reply \in IdentityReplies :
          req' = [req EXCEPT ![r] =
              IF reply.kind = "session" /\ env.cache_enabled
              THEN [req[r] EXCEPT !.reply = Some(reply), !.pc = "cache_set"]
              ELSE [finish(r, session_result_of(reply)) EXCEPT
                        !.reply = Some(reply)]]
    /\ UNCHANGED <<config, cache, now, env, server, harness_vars>>

\* Lines 99-119 of validate_session, then the rest of the handler.
CacheSet(r) ==
    /\ req[r].pc = "cache_set"
    /\ LET token == req[r].session_token.val
           session == req[r].reply.val.session
           ttl == extract_jwt_expiration(token, now)
       IN  /\ cache' = cache_set(cache, token, session,
                                 IF ttl.some THEN ttl.val ELSE DefaultTtl, now)
           /\ req' = [req EXCEPT ![r] = finish(r, Ok(session))]
    /\ UNCHANGED <<config, now, env, server, harness_vars>>

\* The client goes away while the handler is suspended: the future is dropped.
Cancel(r) ==
    /\ req[r].pc \in {"get_cookie_name", "get_config_login", "get_config",
                      "cache_clean", "cache_read", "identity", "cache_set"}
    /\ req' = [req EXCEPT ![r].pc = "cancelled"]
    /\ UNCHANGED <<config, cache, now, env, server, harness_vars>>

Next ==
    \/ Startup
    \/ Reload
    \/ Tick
    \/ \E r \in Slots : Receive(r)
    \/ \E r \in Slots : GetCookieName(r)
    \/ \E r \in Slots : GetConfigLogin(r)
    \/ \E r \in Slots : GetConfig(r)
    \/ \E r \in Slots : CacheClean(r)
    \/ \E r \in Slots : CacheRead(r)
    \/ \E r \in Slots : IdentityReply(r)
    \/ \E r \in Slots : CacheSet(r)
    \/ \E r \in Slots : Cancel(r)

Spec == Init /\ [][Next]_vars

(***************************************************************************)
(* Properties of the decision pipeline.                                    *)
(***************************************************************************)
IdentityHeaderNames ==
    {"X-Auth-User-Id", "X-Auth-User-Email", "X-Auth-User-Roles",
     "X-Auth-User-Permissions"}

NoIdentityHeaders(resp) == \A h \in resp.headers : h[1] \notin IdentityHeaderNames

Locations(resp) == {h[2] : h \in {x \in resp.headers : x[1] = "location"}}

\* The handler of request r returned a response.
Completed(r) == req[r].pc = "done"

\* The identity call of the request failed: no session came back.
IdentityFailed(q) == q.reply.some /\ q.reply.val.kind # "session"

\* What the request asked for, read off its query parameters and headers.
HostOf(input) ==
    CASE input.q_host.some -> input.q_host.val
      [] ~input.q_host.some /\ input.h_host.some -> input.h_host.val
      [] OTHER -> s_unknown_host
PathOf(input) ==
    CASE input.q_uri.some -> input.q_uri.val
      [] ~input.q_uri.some /\ input.h_uri.some -> input.h_uri.val
      [] OTHER -> p_root
ProtoOf(input) ==
    CASE input.q_proto.some -> input.q_proto.val
      [] ~input.q_proto.some /\ input.h_proto.some -> input.h_proto.val
      [] OTHER -> s_http

NoRuleMatches(routes, host, path) ==
    \A i \in 1..Len(routes) : ~RuleMatches(routes[i], host, path)

\* In this step request r moves on from the stage named pc.
Leaves(r, pc) ==
    req[r].pc = pc /\ req'[r].pc \notin {pc, "cancelled"}

\* C1: an Allow (200) is produced only if no rule matched, or a rule matched,
\* a session was resolved for the presented token and authorize returned
\* Authorized for that session against that rule; a missing token, an
\* identity failure, Unauthorized and a policy Error never yield 200.
C1_AllowOnlyIfPermitted ==
    \A r \in Slots :
        LET q == req[r] IN
        (q.response.some /\ q.response.val.status = 200) =>
            \/ ~q.matched_route.some
            \/ /\ q.matched_route.some
               /\ q.session_token.some
               /\ ~IdentityFailed(q)
               /\ q.session.some
               /\ (q.reply.some => q.reply.val.session = q.session.val)
               /\ q.auth_result = Some(Authorized)
               /\ Satisfies(q.session.val, q.matched_route.val.require)

\* A matched request with a token was allowed after authorize said Authorized.
C1_Witness ==
    \E r \in Slots :
        /\ Completed(r) /\ req[r].response.val.status = 200
        /\ req[r].matched_route.some /\ req[r].session_token.some
        /\ req[r].reply.some /\ req[r].auth_result = Some(Authorized)

\* C2: a request whose (host, path) no rule of the table matches gets no
\* matched rule, and the handler answers it 200 with none of the
\* X-Auth-User-* headers, whether or not it carries a session cookie.
C2_UnmatchedAllowed ==
    [][\A r \in Slots :
         /\ (req[r].pc # "get_cookie_name" /\ req'[r].pc = "get_cookie_name"
             /\ NoRuleMatches(config.routes, HostOf(req'[r].input.val),
                              PathOf(req'[r].input.val)))
              => ~req'[r].matched_route.some
         /\ (Leaves(r, "get_cookie_name") /\ ~req[r].matched_route.some)
              => /\ req'[r].pc = "done"
                 /\ req'[r].response.val.status = 200
                 /\ NoIdentityHeaders(req'[r].response.val)
                 /\ req'[r].auth_result = None]_vars

\* An unmatched request carrying the session cookie was answered 200 with no
\* header at all.
C2_Witness ==
    \E r \in Slots :
        /\ Completed(r) /\ ~req[r].matched_route.some
        /\ NoRuleMatches(config.routes, HostOf(req[r].input.val),
                         PathOf(req[r].input.val))
        /\ req[r].session_token.some
        /\ req[r].response.val.status = 200 /\ req[r].response.val.headers = {}

\* The response every failed identity call leads to: a redirect to the login
\* URL of the configuration the request read, whatever the kind of failure.
LoginRedirectOf(q) ==
    create_login_redirect(q.config.val.auth.login_redirect, q.effective_original_url)

\* C3: when the identity call of a matched request with a token fails
\* (transport error, non-2xx status, unparsable body) the outcome is Redirect
\* to login, never Allow, Forbid or Internal error, and the response is the
\* same whatever the kind of failure.
C3_IdentityFailureRedirects ==
    \A r \in Slots :
        LET q == req[r] IN
        IdentityFailed(q) =>
            /\ q.matched_route.some /\ q.session_token.some
            /\ Completed(r)
            /\ q.response.val.status \notin {200, 403, 500}
            /\ q.response.val.status \in 300..399
            /\ Locations(q.response.val) = {LoginRedirectOf(q)}
            /\ q.response.val.body = <<>>
            /\ NoIdentityHeaders(q.response.val)
            /\ q.session = None /\ q.auth_result = None

\* An identity outage (transport error) ended in the redirect to login.
C3_Witness ==
    \E r \in Slots :
        /\ Completed(r) /\ req[r].reply = Some([kind |-> "transport"])
        /\ Locations(req[r].response.val) = {LoginRedirectOf(req[r])}

\* C4: whenever authorize returns Error(reason) the outcome is Internal
\* error (500) with no identity header; a policy Error is never an Allow.
C4_PolicyErrorIsInternal ==
    \A r \in Slots :
        LET q == req[r] IN
        (q.session.some /\ q.matched_route.some
           /\ authorize([session |-> q.session,
                         matched_route |-> q.matched_route]).kind = "Error") =>
            /\ Completed(r)
            /\ q.auth_result.val.kind = "Error"
            /\ q.response.val.status = 500
            /\ NoIdentityHeaders(q.response.val)
            /\ q.response.val.body = <<s_internal, q.auth_result.val.reason>>

\* A principal holding the admin role met a rule with a malformed scopes
\* clause and was answered 500.
C4_Witness ==
    \E r \in Slots :
        /\ Completed(r) /\ req[r].session = Some(sess_admin)
        /\ req[r].auth_result = Some(Error("Invalid scope requirement format"))
        /\ req[r].response.val.status = 500

\* Base64url decoding of an unpadded text: four characters give three bytes,
\* a tail of two or three characters gives one or two.
RECURSIVE Base64UrlDecodeBytes(_)
Base64UrlDecodeBytes(t) ==
    IF Len(t) < 2 THEN <<>>
    ELSE LET a == char_sextet(t[1])
             b == char_sextet(t[2])
             first == (a * 4) + (b \div 16)
         IN  IF Len(t) = 2 THEN <<first>>
             ELSE LET c == char_sextet(t[3])
                      second == ((b % 16) * 16) + (c \div 4)
                  IN  IF Len(t) = 3 THEN <<first, second>>
                      ELSE <<first, second, ((c % 4) * 64) + char_sextet(t[4])>>
                           \o Base64UrlDecodeBytes(SubSeq(t, 5, Len(t)))

Base64UrlDecode(t) ==
    LET bytes == Base64UrlDecodeBytes(t) IN [i \in 1..Len(bytes) |-> code_char(bytes[i])]

IsUnpaddedBase64Url(t) ==
    /\ \A i \in 1..Len(t) : \E k \in 1..Len(UrlSafeAlphabet) : UrlSafeAlphabet[k] = t[i]
    /\ Len(t) % 4 # 1

\* The request carries, in its Cookie header, a cookie of this name: a piece
\* between semicolons that, after leading blanks, reads name then "=".
HasCookie(cookie_header, name) ==
    /\ cookie_header.some
    /\ LET h == cookie_header.val
           n == Len(name)
       IN  \E i \in 1..Len(h) :
               /\ i + n <= Len(h)
               /\ SubSeq(h, i, i + n - 1) = name
               /\ h[i + n] = "="
               /\ \E k \in 0..(i - 1) :
                      /\ (k = 0 \/ h[k] = ";")
                      /\ \A m \in (k + 1)..(i - 1) : h[m] = " "

ConfiguredCookieName ==
    IF config.cookie_name.some THEN config.cookie_name.val ELSE s_session

\* The URL the login flow is to return to.
EffectiveNext(input) ==
    LET original_url ==
            ProtoOf(input) \o <<":", "/", "/">> \o HostOf(input) \o PathOf(input)
    IN  IF env.callback_domain.some
        THEN env.callback_domain.val
               \o <<"/", "a", "u", "t", "h", "/", "c", "a", "l", "l", "b", "a", "c", "k">>
               \o <<"?", "n", "e", "x", "t", "=">> \o base64_url_encode(original_url)
        ELSE original_url

NextSeparator(login_redirect) ==
    IF \E i \in 1..Len(login_redirect) : login_redirect[i] = "?"
    THEN <<"&", "n", "e", "x", "t", "=">>
    ELSE <<"?", "n", "e", "x", "t", "=">>

\* loc is login_redirect, the separator, and a next parameter that is
\* unpadded base64url and decodes to next.
IsLoginLocation(loc, login_redirect, next) ==
    LET prefix == login_redirect \o NextSeparator(login_redirect)
        param == SubSeq(loc, Len(prefix) + 1, Len(loc))
    IN  /\ Len(loc) > Len(prefix)
        /\ SubSeq(loc, 1, Len(prefix)) = prefix
        /\ IsUnpaddedBase64Url(param)
        /\ param = base64_url_encode(next)
        /\ Base64UrlDecode(param) = next

\* C5: a matched request without the cookie of the configured name takes the
\* login branch, whose response is the redirect with Location = login_redirect,
\* then ?next= (or &next= when login_redirect contains ?), then the unpadded
\* base64url of effective_next (original_url, or the callback URL wrapping
\* it); decoding the next parameter gives effective_next back.
C5_MissingCookieRedirects ==
    [][\A r \in Slots :
         /\ (Leaves(r, "get_cookie_name") /\ req[r].matched_route.some
             /\ ~HasCookie(req[r].input.val.cookie, ConfiguredCookieName))
              => /\ req'[r].pc = "get_config_login"
                 /\ req'[r].session_token = None
         /\ Leaves(r, "get_config_login")
              => /\ req'[r].pc = "done"
                 /\ req'[r].response.val.status \in 300..399
                 /\ req'[r].response.val.body = <<>>
                 /\ \E loc \in Locations(req'[r].response.val) :
                        /\ Locations(req'[r].response.val) = {loc}
                        /\ IsLoginLocation(loc, config.auth.login_redirect,
                                           EffectiveNext(req[r].input.val))]_vars

\* A matched request whose Cookie header holds only another cookie was
\* redirected, with a callback domain set and a login URL that has a query.
C5_Witness ==
    \E r \in Slots :
        /\ Completed(r) /\ req[r].matched_route.some
        /\ req[r].input.val.cookie.some /\ req[r].session_token = None
        /\ env.callback_domain.some
        /\ req[r].config.val.auth.login_redirect = url_login_q
        /\ \E loc \in Locations(req[r].response.val) :
               IsLoginLocation(loc, url_login_q, EffectiveNext(req[r].input.val))

\* The outcome of a completed request, from the branch the handler took.
OutcomeOf(q) ==
    IF ~q.matched_route.some THEN "allow"
    ELSE IF ~q.session_token.some \/ IdentityFailed(q) THEN "redirect"
    ELSE CASE q.auth_result.val.kind = "Authorized" -> "allow"
           [] q.auth_result.val.kind = "Unauthorized" -> "forbid"
           [] q.auth_result.val.kind = "Unauthenticated" -> "redirect"
           [] q.auth_result.val.kind = "Error" -> "internal"

IsTextPlain(resp) ==
    \E h \in resp.headers :
        /\ h[1] = "content-type"
        /\ h[2] = <<"t", "e", "x", "t", "/", "p", "l", "a", "i", "n">>

\* resp is the fixed response of the outcome, with this status for a redirect.
ResponseIs(outcome, resp, q, redirect_status) ==
    CASE outcome = "allow" -> resp.status = 200
      [] outcome = "redirect" ->
             resp.status = redirect_status /\ Locations(resp) # {}
      [] outcome = "forbid" ->
             /\ resp.status = 403 /\ IsTextPlain(resp)
             /\ q.auth_result.val.kind = "Unauthorized"
             /\ resp.body = <<<<"F", "o", "r", "b", "i", "d", "d", "e", "n", ":", " ">>,
                              q.auth_result.val.reason>>
      [] outcome = "internal" ->
             /\ resp.status = 500 /\ IsTextPlain(resp)
             /\ q.auth_result.val.kind = "Error"
             /\ resp.body = <<s_internal, q.auth_result.val.reason>>

Outcomes == {"allow", "redirect", "forbid", "internal"}

OutcomesMapped(redirect_status) ==
    \A r \in Slots :
        Completed(r) =>
            /\ req[r].response.some
            /\ ResponseIs(OutcomeOf(req[r]), req[r].response.val, req[r],
                          redirect_status)
            /\ Cardinality({o \in Outcomes :
                   ResponseIs(o, req[r].response.val, req[r], redirect_status)}) = 1

MaxHostLen == 3
MaxPatternLen == 4
MaxPathLen == 3

HostTexts == SeqsUpTo({"a", "A", ".", "*"}, MaxHostLen)
HostPatterns == SeqsUpTo({"*", ".", "a"}, MaxPatternLen)
PathTexts == SeqsUpTo({"/", "a", "*"}, MaxPathLen)
PathPatterns == SeqsUpTo({"/", "a", "*"}, MaxPatternLen)

CallMatchHost ==
    /\ args.fn = "match_host" /\ ret = Idle
    /\ ret' = [returned |-> match_host(args.host, args.pattern)]
    /\ UNCHANGED <<pipeline_vars, args, hist>>

InitHost ==
    /\ HarnessIdle
    /\ args \in [fn : {"match_host"}, host : HostTexts, pattern : HostPatterns]
    /\ ret = Idle

SpecHost == InitHost /\ [][CallMatchHost]_vars

CallMatchPath ==
    /\ args.fn = "match_path" /\ ret = Idle
    /\ ret' = [returned |-> match_path(args.path, args.pattern)]
    /\ UNCHANGED <<pipeline_vars, args, hist>>

InitPath ==
    /\ HarnessIdle
    /\ args \in [fn : {"match_path"}, path : PathTexts, pattern : PathPatterns]
    /\ ret = Idle

SpecPath == InitPath /\ [][CallMatchPath]_vars

\* A pattern of the form *.S with S not empty.
IsWildcardHost(pattern) ==
    Len(pattern) >= 3 /\ pattern[1] = "*" /\ pattern[2] = "."

\* host ends with S, is longer than S, and has "." right before that suffix.
EndsWithLabelsBefore(host, S) ==
    /\ Len(host) > Len(S)
    /\ \A k \in 1..Len(S) : host[Len(host) - Len(S) + k] = S[k]
    /\ host[Len(host) - Len(S)] = "."

\* C11: a wildcard pattern *.S matches a host exactly when the host ends
\* with S, is strictly longer than S and has "." immediately before the
\* suffix (so a host equal to S does not match); any other pattern matches
\* only the host equal to it character for character, case included.
C11_HostPatterns ==
    ret # Idle =>
        IF IsWildcardHost(args.pattern)
        THEN LET S == SubSeq(args.pattern, 3, Len(args.pattern)) IN
             /\ ret.returned <=> EndsWithLabelsBefore(args.host, S)
             /\ args.host = S => ~ret.returned
        ELSE ret.returned <=> (args.host = args.pattern)

\* *.a matched a host of two labels before a, and the call has returned.
C11_Witness ==
    /\ ret = [returned |-> TRUE]
    /\ args.pattern = <<"*", ".", "a">>
    /\ args.host = <<"A", ".", "a">>

\* C12: a pattern P* matches a path exactly when the path starts with P; a
\* pattern that does not end in * matches only the path equal to it.
C12_PathPatterns ==
    ret # Idle =>
        IF Len(args.pattern) > 0 /\ args.pattern[Len(args.pattern)] = "*"
        THEN LET P == SubSeq(args.pattern, 1, Len(args.pattern) - 1) IN
             ret.returned <=> /\ Len(args.path) >= Len(P)
                              /\ \A k \in 1..Len(P) : args.path[k] = P[k]
        ELSE ret.returned <=> (args.path = args.pattern)

\* /a* matched the longer path /aa.
C12_Witness ==
    /\ ret = [returned |-> TRUE]
    /\ args.pattern = <<"/", "a", "*">>
    /\ args.path = <<"/", "a", "a">>

(***************************************************************************)
(* Identity headers and what a response shows of the principal.            *)
(***************************************************************************)
RECURSIVE CommaJoined(_)
CommaJoined(names) ==
    IF Len(names) = 0 THEN <<>>
    ELSE IF Len(names) = 1 THEN names[1]
    ELSE names[1] \o <<",">> \o CommaJoined(Tail(names))

HeaderValues(resp, name) == {h[2] : h \in {x \in resp.headers : x[1] = name}}

\* The response is a 200 whose identity headers are those of this user.
CarriesIdentityOf(resp, user) ==
    /\ resp.status = 200
    /\ HeaderValues(resp, "X-Auth-User-Id") = {user.id}
    /\ HeaderValues(resp, "X-Auth-User-Email") = {user.email}
    /\ HeaderValues(resp, "X-Auth-User-Roles") =
           IF Len(user.roles) > 0 THEN {CommaJoined(user.roles)} ELSE {}
    /\ HeaderValues(resp, "X-Auth-User-Permissions") =
           IF Len(user.permissions) > 0 THEN {CommaJoined(user.permissions)} ELSE {}

\* The handler of the request has run to its end, returning or panicking.
Ended(q) == q.pc \in {"done", "panicked"}

\* C13: when a matched request ends with authorize = Authorized (Allow), its
\* response carries X-Auth-User-Id and X-Auth-User-Email of the resolved
\* principal, X-Auth-User-Roles (comma-joined) exactly when the role list is
\* not empty, and X-Auth-User-Permissions likewise.
C13_AllowCarriesIdentity ==
    \A r \in Slots :
        LET q == req[r] IN
        (Ended(q) /\ q.matched_route.some /\ q.auth_result = Some(Authorized)) =>
            /\ q.response.some
            /\ CarriesIdentityOf(q.response.val, q.session.val.user)

\* What does hold: every response produced for an Authorized request carries
\* the identity headers as described.
C13_ResponsesCarryIdentity ==
    \A r \in Slots :
        LET q == req[r] IN
        (q.response.some /\ q.matched_route.some /\ q.auth_result = Some(Authorized)) =>
            CarriesIdentityOf(q.response.val, q.session.val.user)

\* An Allow with both list headers: roles joined by a comma, and permissions.
C13_Witness ==
    \E r \in Slots :
        /\ Completed(r) /\ req[r].auth_result = Some(Authorized)
        /\ Len(req[r].session.val.user.roles) = 2
        /\ CarriesIdentityOf(req[r].response.val, req[r].session.val.user)

\* The handler panicked building the Allow response: authorize said
\* Authorized and no response exists.
C13_Panicked ==
    \E r \in Slots :
        /\ req[r].pc = "panicked" /\ req[r].auth_result = Some(Authorized)
        /\ req[r].response = None

\* needle occurs in text as a contiguous piece.
Occurs(needle, text) ==
    \E i \in 1..(Len(text) - Len(needle) + 1) :
        SubSeq(text, i, i + Len(needle) - 1) = needle

\* The identifying strings of a principal.
PrincipalTexts(user) ==
    {user.id, user.email}
    \cup {user.roles[i] : i \in 1..Len(user.roles)}
    \cup {user.permissions[i] : i \in 1..Len(user.permissions)}

\* The variable texts a response shows: header values and the names listed
\* in the reason of its body.
ShownTexts(resp) ==
    {h[2] : h \in resp.headers}
    \cup (IF Len(resp.body) = 2
          THEN {resp.body[2].dbg[i] : i \in 1..Len(resp.body[2].dbg)}
          ELSE {})

\* C14: on a Forbid, Redirect or Internal error the headers and body show
\* none of the resolved principal's id, e-mail, roles or permissions.
C14_NonAllowHidesPrincipal ==
    \A r \in Slots :
        LET q == req[r] IN
        (Completed(r) /\ q.session.some /\ q.response.val.status # 200) =>
            /\ NoIdentityHeaders(q.response.val)
            /\ \A p \in PrincipalTexts(q.session.val.user) :
                   \A text \in ShownTexts(q.response.val) : ~Occurs(p, text)

\* A principal with a role and a permission was refused, the required role
\* named in the body.
C14_Witness ==
    \E r \in Slots :
        /\ Completed(r) /\ req[r].session = Some(sess_user)
        /\ req[r].response.val.status = 403
        /\ ShownTexts(req[r].response.val) = {s_text_plain, s_admin}

(***************************************************************************)
(* The session cache on its own (cache.rs): puts, gets and removes by a    *)
(* caller, as time passes.  hist keeps, per token, the latest put that no  *)
(* remove has followed.                                                    *)
(***************************************************************************)
MaxTtl == 2
CacheTokens == {tok1, tok2}
CacheSessions == {sess_admin, sess_user}

InitCache ==
    /\ config = Idle /\ env = Idle /\ req = Idle /\ server = Idle
    /\ cache = [t \in {} |-> None]
    /\ now = 0
    /\ args = Idle /\ ret = Idle
    /\ hist = [t \in CacheTokens |-> None]

CachePut ==
    \E t \in CacheTokens, s \in CacheSessions, ttl \in 0..MaxTtl :
        /\ cache' = cache_set(cache, t, s, ttl, now)
        /\ args' = [fn |-> "set", token |-> t]
        /\ ret' = Ok(<<>>)
        /\ hist' = [hist EXCEPT ![t] = Some([at |-> now, ttl |-> ttl, session |-> s])]
        /\ UNCHANGED <<config, now, env, req, server>>

CacheGet ==
    \E t \in CacheTokens :
        /\ cache' = clean_expired(cache, now)
        /\ args' = [fn |-> "get", token |-> t]
        /\ ret' = [at |-> now, result |-> cache_get(cache, t, now)]
        /\ UNCHANGED <<config, now, env, req, server, hist>>

CacheRemove ==
    \E t \in CacheTokens :
        /\ cache' = cache_remove(cache, t)
        /\ args' = [fn |-> "remove", token |-> t]
        /\ ret' = Ok(<<>>)
        /\ hist' = [hist EXCEPT ![t] = None]
        /\ UNCHANGED <<config, now, env, req, server>>

CacheTick ==
    /\ now < MaxTime
    /\ now' = now + 1
    /\ UNCHANGED <<config, cache, env, req, server, args, ret, hist>>

NextCache == CachePut \/ CacheGet \/ CacheRemove \/ CacheTick

SpecCache == InitCache /\ [][NextCache]_vars

\* The last call was a get, and ret is what it returned.
GotAnswer == args # Idle /\ args.fn = "get"

\* C15: get(t) returns the stored session only at times
\* now < insertion_time + ttl of the latest put, and at every
\* now >= insertion_time + ttl it returns none, as if t had never been put.
C15_NeverServesExpired ==
    GotAnswer =>
        LET put == hist[args.token] IN
        ret.result = IF put.some /\ ret.at < put.val.at + put.val.ttl
                     THEN Some(put.val.session)
                     ELSE None

\* What the cache does: an entry is served up to and including the instant
\* insertion_time + ttl, and not after it.
C15_ServedThroughExpiry ==
    GotAnswer =>
        LET put == hist[args.token] IN
        ret.result = IF put.some /\ ret.at <= put.val.at + put.val.ttl
                     THEN Some(put.val.session)
                     ELSE None

\* A get at the very instant insertion_time + ttl (ttl not zero) returned
\* the session.
C15_ServedAtExpiry ==
    /\ GotAnswer /\ ret.result # None
    /\ hist[args.token].some /\ hist[args.token].val.ttl > 0
    /\ ret.at = hist[args.token].val.at + hist[args.token].val.ttl

\* The entries of `after` other than t are those of `before`.
OthersUnchanged(before, after, t) ==
    \A u \in CacheTokens \ {t} :
        /\ u \in DOMAIN after <=> u \in DOMAIN before
        /\ u \in DOMAIN before => after[u] = before[u]

\* What a get(t) step owes the latest put of t.
GetStepRight(t) ==
    /\ (hist[t].some /\ now < hist[t].val.at + hist[t].val.ttl)
            => ret'.result = Some(hist[t].val.session)
    /\ ~hist[t].some => ret'.result = None
       \* a second get at once answers the same
    /\ cache_get(cache', t, now) = ret'.result
       \* entries that were live are the same entries afterwards
    /\ \A u \in DOMAIN cache :
          not_expired(cache[u].expiry, now)
              => u \in DOMAIN cache' /\ cache'[u] = cache[u]

\* What a remove(t) step guarantees.
RemoveStepRight(t) ==
    /\ cache_get(cache', t, now) = None
    /\ cache_remove(cache', t) = cache'
    /\ OthersUnchanged(cache, cache', t)

\* What a put(t, s, ttl) step guarantees, whether or not t had an entry.
PutStepRight(t) ==
    /\ cache'[t] = [session |-> hist'[t].val.session,
                    expiry |-> now + hist'[t].val.ttl]
    /\ OthersUnchanged(cache, cache', t)

\* C16: after put(t, s, ttl), with no put or remove of t in between, every
\* get(t) within the TTL window returns exactly s, repeated gets return equal
\* values and a get never alters or extends a live entry; after remove(t),
\* get(t) returns none; remove is idempotent and leaves other tokens'
\* entries unchanged.
C16_PutGetRemove ==
    [][ /\ (CacheGet /\ args'.fn = "get") => GetStepRight(args'.token)
        /\ (CacheRemove /\ args'.fn = "remove") => RemoveStepRight(args'.token)
        /\ (CachePut /\ args'.fn = "set") => PutStepRight(args'.token)
      ]_vars

\* A get inside the window of a put that replaced an earlier put has answered
\* with the later session, while another token is still cached and a removed
\* token is gone.
C16_Witness ==
    /\ GotAnswer
    /\ hist[args.token].some
    /\ ret.at > hist[args.token].val.at
    /\ ret.at < hist[args.token].val.at + hist[args.token].val.ttl
    /\ ret.result = Some(hist[args.token].val.session)
    /\ \E u \in CacheTokens \ {args.token} : ~hist[u].some /\ u \notin DOMAIN cache

(***************************************************************************)
(* Two AuthService instances before the same identity service, one built   *)
(* with the cache enabled and one without (auth.rs:23-47), asked to        *)
(* validate the same tokens at the same times.  hist is what the identity  *)
(* service answers for each token at present.                              *)
(***************************************************************************)
TransparencyReplies ==
    {[kind |-> "status"]}
    \cup {[kind |-> "session", session |-> x] : x \in CacheSessions}

TransparencyRoute == Route(h_ab, pp_all, RequireAdmin)
TransparencyUrl == s_http \o s_scheme_sep \o h_ab \o p_root

\* AuthService::validate_session: the result and the cache it leaves.
validate_session(cache_enabled, entries, token, reply, time) ==
    LET cleaned == clean_expired(entries, time)
        hit == cache_lookup(cleaned, token, time)
        ttl == extract_jwt_expiration(token, time)
    IN  IF ~cache_enabled
        THEN [result |-> session_result_of(reply), cache |-> entries]
        ELSE IF hit.some
        THEN [result |-> Ok(hit.val), cache |-> cleaned]
        ELSE IF reply.kind = "session"
        THEN [result |-> Ok(reply.session),
              cache |-> cache_set(cleaned, token, reply.session,
                                  IF ttl.some THEN ttl.val ELSE DefaultTtl, time)]
        ELSE [result |-> Err, cache |-> cleaned]

\* Lines 134-203 of handle_forward_auth for the rule above.
handler_response(session_result) ==
    IF session_result.ok
    THEN response_for(authorize([session |-> Some(session_result.val),
                                 matched_route |-> Some(TransparencyRoute)]),
                      session_result.val, url_login, TransparencyUrl)
    ELSE Some(redirect_response(create_login_redirect(url_login, TransparencyUrl)))

SessionResults == {Err} \cup {Ok(x) : x \in CacheSessions}
ResponseOf == [sr \in SessionResults |-> handler_response(sr)]

InitTransparency ==
    /\ config = Idle /\ env = Idle /\ req = Idle /\ server = Idle
    /\ cache = [t \in {} |-> None]
    /\ now = 0
    /\ args = Idle /\ ret = Idle
    /\ hist \in [CacheTokens -> TransparencyReplies]

\* The same request put to both instances.
ForwardAuthBoth ==
    \E t \in CacheTokens :
        LET with_cache == validate_session(TRUE, cache, t, hist[t], now)
            without == validate_session(FALSE, cache, t, hist[t], now)
        IN  /\ cache' = with_cache.cache
            /\ args' = [token |-> t]
            /\ ret' = [enabled |-> ResponseOf[with_cache.result],
                       disabled |-> ResponseOf[without.result]]
            /\ UNCHANGED <<config, now, env, req, server, hist>>

\* The identity service comes to answer otherwise: a session is revoked or
\* created, a user's roles change.
IdentityChanges ==
    \E t \in CacheTokens, reply \in TransparencyReplies :
        /\ hist[t] # reply
        /\ hist' = [hist EXCEPT ![t] = reply]
        /\ UNCHANGED <<config, cache, now, env, req, server, args, ret>>

TransparencyTick ==
    /\ now < MaxTime
    /\ now' = now + 1
    /\ UNCHANGED <<config, cache, env, req, server, args, ret, hist>>

NextTransparency == ForwardAuthBoth \/ IdentityChanges \/ TransparencyTick

SpecTransparency == InitTransparency /\ [][NextTransparency]_vars

\* C17: cache transparency.  For every sequence of requests and every
\* behaviour of the identity service, the outcomes with the session cache
\* enabled equal the outcomes with it disabled.
C17_CacheTransparent ==
    ret # Idle => ret.enabled = ret.disabled

\* The two differ only when the cached instance answered from its cache
\* something the identity service no longer says; a request that misses the
\* cache gets the same response from both.
C17_MissesAgree ==
    [][ (ForwardAuthBoth /\ ~cache_get(cache, args'.token, now).some)
            => ret'.enabled = ret'.disabled ]_vars

\* The cached instance has allowed a request that the uncached one sent to
\* the login page.
C17_StaleAllow ==
    /\ ret # Idle
    /\ ret.enabled.some /\ ret.enabled.val.status = 200
    /\ ret.disabled.some /\ ret.disabled.val.status = 303

(***************************************************************************)
(* The configuration manager before its two providers                      *)
(* (config_provider.rs, config.rs): loads from a file or from the          *)
(* database, and matches against the table in memory.  hist is the         *)
(* configuration of the last load that returned Ok.                        *)
(***************************************************************************)
\* An Option<Vec<String>> field with #[serde(default)].
opt_strings_field(fields, key) ==
    IF key \notin DOMAIN fields THEN Ok(None)
    ELSE IF fields[key].t = "null" THEN Ok(None)
    ELSE IF fields[key].t = "arr"
              /\ \A i \in 1..Len(fields[key].v) : fields[key].v[i].t = "str"
         THEN Ok(Some([i \in 1..Len(fields[key].v) |-> fields[key].v[i].v]))
         ELSE Err

\* An Option<Vec<TeamRequirement>> field with #[serde(default)].
opt_teams_field(fields, key) ==
    IF key \notin DOMAIN fields THEN Ok(None)
    ELSE IF fields[key].t = "null" THEN Ok(None)
    ELSE IF fields[key].t = "arr"
         THEN LET r == team_requirements_from(fields[key].v, 1, <<>>) IN
              IF r.ok THEN Ok(Some(r.val)) ELSE Err
         ELSE Err

\* serde_json::from_value::<RequireConfig>
require_config_from_value(val) ==
    LET f == struct_fields(val, <<"roles", "permissions", "scopes", "teams">>) IN
    IF ~f.ok THEN Err
    ELSE LET ro == opt_strings_field(f.val, "roles")
             pe == opt_strings_field(f.val, "permissions")
             sc == opt_scopes_field(f.val, "scopes")
             te == opt_teams_field(f.val, "teams")
         IN  IF ro.ok /\ pe.ok /\ sc.ok /\ te.ok
             THEN Ok([roles |-> ro.val, permissions |-> pe.val,
                      scopes |-> sc.val, teams |-> te.val])
             ELSE Err

\* Serialize for the Option fields: None is written as null, no key is left
\* out.
opt_string_to_value(o) == IF o.some THEN JStr(o.val) ELSE JNull
opt_strings_to_value(o) ==
    IF o.some THEN JArr([i \in 1..Len(o.val) |-> JStr(o.val[i])]) ELSE JNull
scope_requirement_to_value(x) ==
    JObj([resource_type |-> JStr(x.resource_type), action |-> JStr(x.action),
          resource_id |-> opt_string_to_value(x.resource_id)])
opt_scopes_to_value(o) ==
    IF o.some
    THEN JArr([i \in 1..Len(o.val) |-> scope_requirement_to_value(o.val[i])])
    ELSE JNull
team_requirement_to_value(x) ==
    JObj([id |-> opt_string_to_value(x.id), name |-> opt_string_to_value(x.name),
          scopes |-> opt_scopes_to_value(x.scopes)])
opt_teams_to_value(o) ==
    IF o.some
    THEN JArr([i \in 1..Len(o.val) |-> team_requirement_to_value(o.val[i])])
    ELSE JNull

\* serde_json::to_value(&RequireConfig)
require_config_to_value(rc) ==
    JObj([roles |-> opt_strings_to_value(rc.roles),
          permissions |-> opt_strings_to_value(rc.permissions),
          scopes |-> opt_scopes_to_value(rc.scopes),
          teams |-> opt_teams_to_value(rc.teams)])

\* JsonFileProvider::load_config up to validate_config: the file as parsed,
\* every require kept as the Value it is.
json_file_read(file) == file

\* PostgresProvider::load_config up to validate_config: every require goes
\* through RequireConfig and back.
postgres_routes(rows, parsed) ==
    IF \E i \in 1..Len(parsed) : ~parsed[i].ok THEN Err
    ELSE Ok([rows EXCEPT !.routes =
               [i \in 1..Len(parsed) |->
                   [id |-> None, host |-> rows.routes[i].host,
                    path |-> rows.routes[i].path,
                    require |-> require_config_to_value(parsed[i].val)]]])

postgres_read(rows) ==
    IF ~rows.ok THEN Err
    ELSE postgres_routes(rows.val,
                         [i \in 1..Len(rows.val.routes) |->
                             require_config_from_value(rows.val.routes[i].require)])

provider_read(source) ==
    IF source.provider = "json" THEN json_file_read(source.content)
    ELSE postgres_read(source.content)

RequireNull == Require(JNull, Absent, Absent, Absent)
RequireEmptyList == Require(Absent, JArr(<<>>), Absent, Absent)
RequireNothing == Require(Absent, Absent, Absent, Absent)
RequireRolesText == Require(JStr(s_admin), Absent, Absent, Absent)
RequireScope ==
    Require(Absent, Absent,
            JArr(<<JObj([resource_type |-> JStr(s_x), action |-> JStr(s_read)])>>),
            JArr(<<JObj([name |-> JStr(s_x)])>>))
LoadRequires ==
    {RequireAdmin, RequireNull, RequireEmptyList, RequireNothing,
     RequireRolesText, RequireScope}

\* Patterns as an operator may write them: a star that is not a whole first
\* label, a star with nothing after the dot, a star inside the path.
hp_star_mid == <<"a", "*", "b">>
hp_star_dot == <<"*", ".">>
pp_star_mid == <<"/", "*", "a">>

\* What a provider can find: nothing readable, or a configuration as written.
LoadContents ==
    {Err}
    \cup {Ok(Config(url_session, url_login, <<Route(h_ab, pp_all, r)>>, None)) :
            r \in LoadRequires}
    \cup {Ok(ConfigNoRoutes),
          Ok(Config(<<>>, url_login, <<Route(h_ab, pp_all, RequireAdmin)>>, None)),
          Ok(Config(url_session, url_login,
                    <<Route(hp_star_ab, pp_a_star, RequireAdmin),
                      Route(h_ab, pp_all, RequireNothing)>>, Some(s_sid))),
          Ok(Config(url_session, url_login,
                    <<Route(hp_star_mid, pp_star_mid, RequireAdmin),
                      Route(hp_star_dot, pp_all, RequireAdmin)>>, None))}
\* ConfigProviderFactory::create chooses the provider once, at startup.
Providers == {"json", "postgres"}

InitLoad ==
    /\ config = EmptyConfig
    /\ server = "boot"
    /\ env \in [provider : Providers]
    /\ cache = Idle /\ now = Idle /\ req = Idle
    /\ args = Idle /\ ret = Idle
    /\ hist = EmptyConfig

\* ConfigManager::load_config, at startup (main.rs: an error ends the
\* process) and at every reload (the error is logged).
Loaded(source, loaded) ==
    /\ config' = loaded.config
    /\ server' = IF server = "boot" /\ ~loaded.ok THEN "exited" ELSE "serving"
    /\ args' = [fn |-> "load_config", source |-> source]
    /\ ret' = [ok |-> loaded.ok]
    /\ hist' = IF loaded.ok THEN loaded.config ELSE hist

LoadConfig ==
    /\ server \in {"boot", "serving"}
    /\ \E source \in [provider : {env.provider}, content : LoadContents] :
          Loaded(source, load_config(config, provider_read(source)))
    /\ UNCHANGED <<cache, now, env, req>>

\* The match step of a request against the table in memory.
MatchLoaded ==
    /\ server = "serving"
    /\ \E host \in {h_ab, h_cab, h_b}, path \in {p_root, p_a, p_ab} :
          /\ args' = [fn |-> "match_route", host |-> host, path |-> path]
          /\ ret' = [route |-> match_route(config.routes, host, path)]
    /\ UNCHANGED <<config, cache, now, env, req, server, hist>>

NextLoad == LoadConfig \/ MatchLoaded

SpecLoad == InitLoad /\ [][NextLoad]_vars

\* C18: a load_config that fails, whether in the provider or in validation,
\* leaves the configuration in memory exactly as it was, and requests go on
\* being matched against the table of the last successful load.
C18_FailedLoadKeepsTable ==
    [][ /\ (LoadConfig /\ args'.fn = "load_config" /\ ~ret'.ok)
            => config' = config
        /\ (MatchLoaded /\ args'.fn = "match_route")
            => ret'.route = match_route(hist.routes, args'.host, args'.path)
      ]_vars

\* A reload has just failed while a table with a rule was in memory.
C18_Witness ==
    /\ server = "serving"
    /\ args # Idle /\ args.fn = "load_config" /\ ~ret.ok
    /\ config.routes # <<>> /\ config = hist

\* A clause of the requirement that is present and not empty.
ClausePresent(require, key) ==
    /\ json_get(require, key).some
    /\ json_get(require, key).val.t = "arr"
    /\ json_get(require, key).val.v # <<>>

HasNonEmptyClause(require) ==
    \E key \in {"roles", "permissions", "scopes", "teams"} :
        ClausePresent(require, key)

\* C19: every rule of a loaded table has at least one of roles,
\* permissions, scopes, teams present and non-empty; a rule with no clause
\* or only null or empty ones is rejected at load by both providers.
C19_LoadedRulesHaveClause ==
    server = "serving" =>
        \A i \in 1..Len(config.routes) : HasNonEmptyClause(config.routes[i].require)

\* What validate_config does ensure: one of the four keys is there,
\* whatever its value.
C19_LoadedRulesHaveKey ==
    server = "serving" =>
        \A i \in 1..Len(config.routes) : has_requirements(config.routes[i].require)

\* The database held a rule whose requirement is {} and the load succeeded:
\* the rule is in the table with four null clauses.
C19_EmptyRuleLoaded ==
    /\ server = "serving"
    /\ args # Idle /\ args.fn = "load_config" /\ ret.ok
    /\ args.source.provider = "postgres"
    /\ \E i \in 1..Len(args.source.content.val.routes) :
          /\ args.source.content.val.routes[i].require = RequireNothing
          /\ config.routes[i].require = Require(JNull, JNull, JNull, JNull)

\* The file held a rule whose only clause is null or an empty list and the
\* load succeeded.
C19_NullRuleLoadedFromFile ==
    /\ server = "serving"
    /\ args # Idle /\ args.fn = "load_config" /\ ret.ok
    /\ args.source.provider = "json"
    /\ \E i \in 1..Len(config.routes) :
          config.routes[i].require \in {RequireNull, RequireEmptyList}

(***************************************************************************)
(* A request in flight while the table is reloaded.  The tables the        *)
(* provider can hand back have no rule in common, so the rule a request    *)
(* matched tells which table it was matched against.                       *)
(***************************************************************************)
LoadableTables ==
    {with_default_cookie(p.val) : p \in {x \in Provided : x.ok /\ validate_config(x.val)}}

HoldsRule(table, route) == \E i \in 1..Len(table.routes) : table.routes[i] = route

\* The table version the rule was matched in.
TableOf(route) == CHOOSE table \in LoadableTables : HoldsRule(table, route)

\* The handler has read the cookie name.
PastCookieName(q) ==
    q.pc \in {"get_config_login", "get_config", "cache_clean", "cache_read",
              "identity", "cache_set", "done", "panicked"}

\* C20: a reload that completes while a request is in flight does not
\* affect it: the session-cookie name, session_url and login_redirect it
\* uses after its match step come from the table version the match was made
\* against.
C20_OneTableVersion ==
    \A r \in Slots :
        LET q == req[r] IN
        q.matched_route.some =>
            /\ PastCookieName(q) =>
                  q.session_token =
                      extract_session_token(
                          q.input.val.cookie,
                          get_cookie_name(TableOf(q.matched_route.val)))
            /\ q.config.some => q.config.val.auth = TableOf(q.matched_route.val).auth

\* A request matched against one table has been sent to the login page of
\* another.
C20_MixedVersions ==
    \E r \in Slots :
        LET q == req[r] IN
        /\ q.pc = "done" /\ q.matched_route.some /\ q.config.some
        /\ q.response.val.status = 303
        /\ q.config.val.auth.login_redirect
               # TableOf(q.matched_route.val).auth.login_redirect
        /\ Locations(q.response.val) = {LoginRedirectOf(q)}

\* A request matched against one table has had its token looked for under
\* the cookie name of another.
C20_MixedCookieName ==
    \E r \in Slots :
        LET q == req[r] IN
        /\ q.matched_route.some /\ PastCookieName(q)
        /\ q.session_token #
               extract_session_token(
                   q.input.val.cookie,
                   get_cookie_name(TableOf(q.matched_route.val)))

(***************************************************************************)
(* RouteMatcher::match_route, rule by rule, beside ConfigManager's         *)
(* load_config (matcher.rs:24-36, config.rs:39-53).  Both go through the   *)
(* one RwLock<Config>: the matcher holds a read guard from before the      *)
(* first rule until it returns, the loader takes the write guard for the   *)
(* single assignment of the new Config.  req is the matcher's call,        *)
(* server the loader, hist the table that was in place when the call       *)
(* began.                                                                  *)
(***************************************************************************)
TableFirstMiss ==
    Config(url_session, url_login,
           <<Route(h_b, pp_all, RequireAdmin), Route(h_ab, pp_all, RequireAdmin)>>,
           Some(s_session))
TableFirstHit ==
    Config(url_session, url_login,
           <<Route(h_ab, pp_all, RequireUser), Route(h_b, pp_all, RequireUser)>>,
           Some(s_session))
TearTables == {TableFirstMiss, TableFirstHit, with_default_cookie(ConfigAdminOnly)}

NoCall == [pc |-> "idle", i |-> 0]

\* RwLock::write is granted when no read guard is out.
write_granted_while_reading(call) == TRUE

write_granted(call) == call.pc # "scanning"

InitTear ==
    /\ config \in TearTables
    /\ req = NoCall
    /\ server = [pending |-> None]
    /\ cache = Idle /\ now = Idle /\ env = Idle
    /\ args = Idle /\ ret = Idle
    /\ hist = Idle

\* Line 25: the read guard is taken.
MatchBegin ==
    /\ req.pc \in {"idle", "returned"}
    /\ \E host \in {h_ab, h_b, h_cab}, path \in {p_root, p_a} :
          args' = [host |-> host, path |-> path]
    /\ req' = [pc |-> "scanning", i |-> 1]
    /\ hist' = config
    /\ ret' = Idle
    /\ UNCHANGED <<config, cache, now, env, server>>

\* Lines 27-35: one turn of the loop over &config.routes, or its end; the
\* guard is dropped on return.
MatchStep ==
    /\ req.pc = "scanning"
    /\ IF req.i > Len(config.routes)
       THEN /\ ret' = [route |-> None]
            /\ req' = [req EXCEPT !.pc = "returned"]
       ELSE IF /\ match_host(args.host, config.routes[req.i].host)
               /\ match_path(args.path, config.routes[req.i].path)
       THEN /\ ret' = [route |-> Some(config.routes[req.i])]
            /\ req' = [req EXCEPT !.pc = "returned"]
       ELSE /\ req' = [req EXCEPT !.i = req.i + 1]
            /\ ret' = ret
    /\ UNCHANGED <<config, cache, now, env, server, args, hist>>

\* config.rs:40-46: the provider has returned a new Config.
ReloadRead ==
    /\ ~server.pending.some
    /\ \E table \in TearTables \ {config} : server' = [pending |-> Some(table)]
    /\ UNCHANGED <<config, cache, now, env, req, args, ret, hist>>

\* config.rs:48-49: the write guard and the assignment.
ReloadWrite ==
    /\ server.pending.some
    /\ write_granted(req)
    /\ config' = server.pending.val
    /\ server' = [pending |-> None]
    /\ UNCHANGED <<cache, now, env, req, args, ret, hist>>

NextTear == MatchBegin \/ MatchStep \/ ReloadRead \/ ReloadWrite

SpecTear == InitTear /\ [][NextTear]_vars

\* C21: a match_route call that runs while a reload is under way evaluates
\* every rule against one table version: what it returns is the first match
\* in the whole table from before the reload or in the whole table after
\* it, never in a mixture.
C21_MatchNotTorn ==
    (req.pc = "returned") =>
        \/ ret.route = match_route(hist.routes, args.host, args.path)
        \/ ret.route = match_route(config.routes, args.host, args.path)

\* A call has returned a rule of the old table's second place while a
\* reload, begun during the scan, waits for the guard or has since written.
C21_Witness ==
    /\ req.pc = "returned" /\ req.i = 2 /\ ret.route.some
    /\ (server.pending.some \/ config # hist)
    /\ ret.route = match_route(hist.routes, args.host, args.path)

(***************************************************************************)
(* The guard of the admin API (admin.rs): bearer token and session role.   *)
(* An environment variable is None when unset.                             *)
(***************************************************************************)
s_bearer == <<"B", "e", "a", "r", "e", "r", " ">>
s_test_token == <<"t", "e", "s", "t", "-", "t", "o", "k", "e", "n">>

\* try_extract_token: the text after "Bearer " in the Authorization header.
try_extract_token(authorization) ==
    IF ~authorization.some THEN None
    ELSE IF ~starts_with(authorization.val, s_bearer) THEN None
    ELSE Some(SubSeq(authorization.val, Len(s_bearer) + 1, Len(authorization.val)))

\* An is_valid_token that looks at "test-token" before the environment.
is_valid_token_test_first(token, admin_token) ==
    IF token = s_test_token THEN TRUE
    ELSE IF ~admin_token.some THEN FALSE
    ELSE IF admin_token.val = <<>> THEN FALSE
    ELSE token = admin_token.val

\* is_valid_token, with the value of AUTHGATE_ADMIN_TOKEN.
is_valid_token(token, admin_token) ==
    IF ~admin_token.some THEN FALSE
    ELSE IF admin_token.val = <<>> THEN FALSE
    ELSE IF token = s_test_token THEN TRUE
    ELSE token = admin_token.val

\* The first step of health_handler: a bearer is there and is valid.
bearer_accepted(authorization, admin_token) ==
    LET token == try_extract_token(authorization) IN
    token.some /\ is_valid_token(token.val, admin_token)

s_key == <<"k">>
s_key_long == <<"k", "k">>
BearerValues == {<<>>, s_key, s_key_long, s_test_token, <<"T", "e", "s", "t">>}
AuthorizationHeaders ==
    {None}
    \cup {Some(s_bearer \o t) : t \in BearerValues}
    \cup {Some(<<"b", "e", "a", "r", "e", "r", " ">> \o t) : t \in BearerValues}
    \cup {Some(t) : t \in BearerValues}
    \cup {Some(<<"B", "e", "a", "r", "e", "r">> \o t) : t \in BearerValues}
AdminTokens == {None, Some(<<>>), Some(s_key), Some(s_key_long), Some(s_test_token)}

InitToken ==
    /\ HarnessIdle
    /\ args \in [authorization : AuthorizationHeaders, admin_token : AdminTokens]
    /\ ret = Idle

CallBearerAccepted ==
    /\ ret = Idle
    /\ ret' = [returned |-> bearer_accepted(args.authorization, args.admin_token)]
    /\ UNCHANGED <<pipeline_vars, args, hist>>

SpecToken == InitToken /\ [][CallBearerAccepted]_vars

\* The header is `Bearer <t>`.
IsBearerOf(authorization, t) == authorization = Some(s_bearer \o t)

\* C23: a bearer value t is accepted iff AUTHGATE_ADMIN_TOKEN is set and
\* non-empty and t equals it or is the literal test-token; with the admin
\* token unset or empty nothing is accepted, test-token included.
C23_BearerAccepted ==
    ret # Idle =>
        (ret.returned <=>
            /\ args.admin_token.some
            /\ args.admin_token.val # <<>>
            /\ \/ IsBearerOf(args.authorization, args.admin_token.val)
               \/ IsBearerOf(args.authorization, s_test_token))

\* test-token has been refused because no admin token is configured.
C23_Witness ==
    /\ ret = [returned |-> FALSE]
    /\ IsBearerOf(args.authorization, s_test_token)
    /\ ~args.admin_token.some

\* test-token has been accepted beside a configured token that differs.
C23_TestTokenAccepted ==
    /\ ret = [returned |-> TRUE]
    /\ IsBearerOf(args.authorization, s_test_token)
    /\ args.admin_token = Some(s_key)

(***************************************************************************)
(* health_handler, the guarded admin endpoint (admin.rs:341-388).  The     *)
(* environment e holds AUTHGATE_ADMIN_TOKEN, AUTHGATE_SESSION_URL,         *)
(* AUTHGATE_SESSION_COOKIE and AUTHGATE_ADMIN_SESSION_ROLES.               *)
(***************************************************************************)
\* .split(',').map(trim).filter(non-empty)
RECURSIVE trimmed_non_empty(_)
trimmed_non_empty(pieces) ==
    IF pieces = <<>> THEN <<>>
    ELSE IF trim(Head(pieces)) = <<>> THEN trimmed_non_empty(Tail(pieces))
         ELSE <<trim(Head(pieces))>> \o trimmed_non_empty(Tail(pieces))

\* A has_allowed_role that lets every session in when no role is listed.
has_allowed_role_open(session, session_roles) ==
    IF ~session_roles.some THEN FALSE
    ELSE LET allowed_roles == trimmed_non_empty(split_char(session_roles.val, ","))
         IN  IF allowed_roles = <<>> THEN TRUE
             ELSE \E i \in 1..Len(session.user.roles) :
                      seq_contains(allowed_roles, session.user.roles[i])

has_allowed_role(session, session_roles) ==
    IF ~session_roles.some THEN FALSE
    ELSE LET allowed_roles == trimmed_non_empty(split_char(session_roles.val, ","))
         IN  IF allowed_roles = <<>> THEN FALSE
             ELSE \E i \in 1..Len(session.user.roles) :
                      seq_contains(allowed_roles, session.user.roles[i])

admin_json(status, message) == [status |-> status, message |-> message]

health_response ==
    [status |-> 200, headers |-> {<<"content-type", "application/json">>},
     body |-> admin_json("ok", "Admin API is available")]

admin_forbidden_response(message) ==
    [status |-> 403, headers |-> {<<"content-type", "application/json">>},
     body |-> admin_json("error", message)]

unauthorized_response(message) ==
    [status |-> 401,
     headers |-> {<<"www-authenticate", "Bearer">>,
                  <<"content-type", "application/json">>},
     body |-> admin_json("error", message)]

\* The session half of health_handler, once the bearer has not been accepted.
session_authentication(token, e, reply) ==
    IF token.some /\ e.session_url.some /\ e.session_url.val # <<>>
    THEN IF session_result_of(reply).ok
         THEN IF has_allowed_role(session_result_of(reply).val, e.session_roles)
              THEN health_response
              ELSE admin_forbidden_response("Insufficient permissions")
         ELSE unauthorized_response("Authentication required")
    ELSE unauthorized_response("Authentication required")

health_handler(request, e, reply) ==
    IF bearer_accepted(request.authorization, e.admin_token)
    THEN health_response
    ELSE session_authentication(
             extract_session_token(
                 request.cookie,
                 IF e.session_cookie.some THEN e.session_cookie.val ELSE s_session),
             e, reply)

HealthEnvs ==
    [admin_token : {None, Some(s_key)},
     session_url : {None, Some(<<>>), Some(url_session)},
     session_cookie : {None, Some(s_sid)},
     session_roles : {None, Some(<<>>), Some(<<",">>), Some(s_admin),
                      Some(<<" ">> \o s_read \o <<" ", ",", ",", " ">> \o s_admin)}]
HealthRequests ==
    [authorization : {None, Some(s_bearer \o s_key), Some(s_bearer \o s_key_long),
                      Some(s_bearer \o s_test_token)},
     cookie : {None, Some(ck_session_t1), Some(ck_sid_t2)}]

InitHealth ==
    /\ HarnessIdle
    /\ args \in [request : HealthRequests, e : HealthEnvs,
                 reply : TransparencyReplies]
    /\ ret = Idle

CallHealthHandler ==
    /\ ret = Idle
    /\ ret' = health_handler(args.request, args.e, args.reply)
    /\ UNCHANGED <<pipeline_vars, args, hist>>

SpecHealth == InitHealth /\ [][CallHealthHandler]_vars

\* The bearer of the request is the configured token or test-token beside a
\* configured token.
BearerOk ==
    /\ args.e.admin_token.some /\ args.e.admin_token.val # <<>>
    /\ \/ IsBearerOf(args.request.authorization, args.e.admin_token.val)
       \/ IsBearerOf(args.request.authorization, s_test_token)

\* The session cookie of the request resolves to a principal.
SessionResolved ==
    /\ extract_session_token(
           args.request.cookie,
           IF args.e.session_cookie.some THEN args.e.session_cookie.val
           ELSE s_session).some
    /\ args.e.session_url.some /\ args.e.session_url.val # <<>>
    /\ args.reply.kind = "session"

\* The configured admin roles, as a set.
AdminRoles ==
    IF ~args.e.session_roles.some THEN {}
    ELSE {trim(x) : x \in {split_char(args.e.session_roles.val, ",")[i] :
                     i \in 1..Len(split_char(args.e.session_roles.val, ","))}}
         \ {<<>>}

HasAdminRole ==
    \E i \in 1..Len(args.reply.session.user.roles) :
        args.reply.session.user.roles[i] \in AdminRoles

\* C24: a guarded admin request gets 200 iff the bearer is accepted or the
\* session cookie resolves to a principal with an admin role; otherwise 403
\* exactly when the session resolved to a principal with no admin role, and
\* 401 with WWW-Authenticate: Bearer in every other case.
C24_GuardOutcome ==
    ret # Idle =>
        IF BearerOk \/ (SessionResolved /\ HasAdminRole)
        THEN ret.status = 200
        ELSE IF SessionResolved
        THEN ret.status = 403
        ELSE /\ ret.status = 401
             /\ <<"www-authenticate", "Bearer">> \in ret.headers
             /\ ret.body = admin_json("error", "Authentication required")

\* A rejected bearer beside a session without an admin role was refused 403.
C24_Witness ==
    /\ ret # Idle /\ ret.status = 403
    /\ args.request.authorization = Some(s_bearer \o s_key_long)
    /\ args.e.admin_token = Some(s_key)
    /\ SessionResolved /\ ~HasAdminRole /\ AdminRoles # {}

\* A session whose role stands in a list written with blanks and empty
\* pieces was let in.
C24_SessionAdmitted ==
    /\ ret # Idle /\ ret.status = 200 /\ ~BearerOk
    /\ SessionResolved /\ Cardinality(AdminRoles) = 2

\* A rejected bearer and a session that failed to resolve got 401.
C24_Unauthorized ==
    /\ ret # Idle /\ ret.status = 401
    /\ args.request.authorization.some /\ args.request.cookie.some
    /\ args.reply.kind = "status"

(***************************************************************************)
(* The admin API (admin.rs, main.rs:119-143) over the routes table of the  *)
(* database, beside the configuration in memory.  env holds                *)
(* AUTHGATE_ENABLE_ADMIN_API, AUTHGATE_CONFIG_BACKEND and                  *)
(* AUTHGATE_ADMIN_TOKEN; server is the database (its routes rows and the   *)
(* next serial id); config is the configuration in memory; req holds the   *)
(* admin requests being handled, each with what it has done to the store   *)
(* so far.                                                                 *)
(***************************************************************************)
\* str::to_lowercase, on ASCII.
to_lowercase(text) ==
    [i \in 1..Len(text) |->
        IF char_code(text[i]) >= 65 /\ char_code(text[i]) <= 90
        THEN code_char(char_code(text[i]) + 32)
        ELSE text[i]]

s_true == <<"t", "r", "u", "e">>
s_false == <<"f", "a", "l", "s", "e">>
s_postgres == <<"p", "o", "s", "t", "g", "r", "e", "s">>
s_json == <<"j", "s", "o", "n">>

is_admin_api_enabled(enable_admin_api, config_backend) ==
    /\ to_lowercase(IF enable_admin_api.some THEN enable_admin_api.val ELSE s_false)
           = s_true
    /\ to_lowercase(IF config_backend.some THEN config_backend.val ELSE s_json)
           = s_postgres

\* Path::<String> parsed as i32.
parse_id(text) ==
    IF text = "1" THEN Ok(1)
    ELSE IF text = "2" THEN Ok(2)
    ELSE IF text = "3" THEN Ok(3)
    ELSE Err

\* The router nested under /admin: which handler a method and a path reach.
\* A path is the sequence of its segments after /admin.  A route whose path
\* matches but whose method does not answers 405 by itself; the fallback is
\* for paths no route matches.
admin_router(enabled, method, path) ==
    IF ~enabled
    THEN IF path = <<"health">>
         THEN IF method \in {"GET", "HEAD"} THEN "disabled_handler"
              ELSE "method_not_allowed"
         ELSE "disabled_handler"
    ELSE IF path = <<"health">>
         THEN IF method \in {"GET", "HEAD"} THEN "health_handler"
              ELSE "method_not_allowed"
    ELSE IF path = <<"routes">>
         THEN IF method \in {"GET", "HEAD"} THEN "list_routes"
              ELSE IF method = "POST" THEN "create_route"
              ELSE "method_not_allowed"
    ELSE IF Len(path) = 2 /\ path[1] = "routes"
         THEN IF method \in {"GET", "HEAD"} THEN "get_route"
              ELSE IF method = "PUT" THEN "update_route"
              ELSE IF method = "DELETE" THEN "delete_route"
              ELSE "method_not_allowed"
    ELSE "not_found"

disabled_response ==
    [status |-> 403, headers |-> {<<"content-type", "application/json">>},
     body |-> admin_json("error", "Admin API is not available")]

\* ApiError::into_response, and the Json success bodies.
api_response(status) ==
    [status |-> status, headers |-> {<<"content-type", "application/json">>},
     body |-> admin_json(IF status = 200 THEN "success" ELSE "error", "")]

bare_response(status) == [status |-> status, headers |-> {}, body |-> <<>>]

\* validate_route
validate_route(dto) ==
    /\ dto.host # <<>>
    /\ dto.path # <<>>
    /\ Head(dto.path) = "/"
    /\ \/ dto.require.roles.some \/ dto.require.permissions.some
       \/ dto.require.scopes.some \/ dto.require.teams.some

RequireConfigOf(roles) ==
    [roles |-> Some(roles), permissions |-> None, scopes |-> None, teams |-> None]
DtoOf(host) == [host |-> host, path |-> p_a, require |-> RequireConfigOf(<<s_admin>>)]
DtoNoHost == [host |-> <<>>, path |-> p_a, require |-> RequireConfigOf(<<s_admin>>)]

\* A row of the routes table.
Row(id, dto) ==
    [id |-> id, host |-> dto.host, path |-> dto.path,
     require |-> require_config_to_value(dto.require)]

MaxId == 3
AdminTasks == {"a1", "a2"}
\* The rule each client tries to create.
DtoFor(t) == IF t = "a1" THEN DtoOf(h_ab) ELSE DtoOf(h_b)

\* SELECT ... FROM routes, and the auth_config row, as the provider reads
\* them.
RECURSIVE rows_in_order(_, _)
rows_in_order(rows, id) ==
    IF id > MaxId + 1 THEN <<>>
    ELSE (IF \E r \in rows : r.id = id
          THEN <<CHOOSE r \in rows : r.id = id>> ELSE <<>>)
         \o rows_in_order(rows, id + 1)

store_read(rows) ==
    Ok(Config(url_session, url_login,
              [i \in 1..Len(rows_in_order(rows, 1)) |->
                  [id |-> None, host |-> rows_in_order(rows, 1)[i].host,
                   path |-> rows_in_order(rows, 1)[i].path,
                   require |-> rows_in_order(rows, 1)[i].require]],
              None))

AdminRequest(method, path, authorization, body) ==
    [method |-> method, path |-> path, authorization |-> authorization,
     body |-> body]

AdminRequests(t) ==
    { AdminRequest("GET", <<"health">>, None, None),
      AdminRequest("GET", <<"health">>, Some(s_bearer \o s_key), None),
      AdminRequest("POST", <<"health">>, Some(s_bearer \o s_key), None),
      AdminRequest("GET", <<"routes">>, None, None),
      AdminRequest("GET", <<"routes", "1">>, None, None),
      AdminRequest("GET", <<"other">>, Some(s_bearer \o s_key), None),
      AdminRequest("POST", <<"routes">>, None, Some(DtoFor(t))),
      AdminRequest("POST", <<"routes">>, Some(s_bearer \o s_key), Some(DtoNoHost)),
      AdminRequest("DELETE", <<"routes", "x">>, None, None),
      AdminRequest("DELETE", <<"routes", "1">>, None, None) }

NoAdminRequest ==
    [pc |-> "idle", request |-> None, handler |-> "", pending |-> None,
     response |-> None, touched |-> {}]

answered(task, response) ==
    [task EXCEPT !.pc = "done", !.response = Some(response), !.pending = None]

\* The environment of health_handler here: no session authentication.
GuardEnv ==
    [admin_token |-> env.admin_token, session_url |-> None,
     session_cookie |-> None, session_roles |-> None]

AdminEnvs ==
    [enable_admin_api : {None, Some(s_true), Some(<<"T", "R", "U", "E">>)},
     config_backend : {None, Some(s_postgres)},
     admin_token : {Some(s_key)}]

InitialRows == {Row(1, DtoOf(h_cab))}

InitAdmin ==
    /\ env \in AdminEnvs
    /\ server = [rows |-> InitialRows, next_id |-> 2]
    /\ config = load_config(EmptyConfig, postgres_read(store_read(InitialRows))).config
    /\ req = [t \in AdminTasks |-> NoAdminRequest]
    /\ cache = Idle /\ now = Idle
    /\ args = Idle /\ ret = Idle /\ hist = Idle

\* What the handler does before it first goes to the database.
dispatched(task, request, handler) ==
    LET q == [task EXCEPT !.pc = "store", !.request = Some(request),
                          !.handler = handler, !.response = None,
                          !.pending = None, !.touched = {}]
    IN  CASE handler = "disabled_handler" -> answered(q, disabled_response)
          [] handler = "method_not_allowed" -> answered(q, bare_response(405))
          [] handler = "not_found" -> answered(q, bare_response(404))
          [] handler = "health_handler" ->
                 answered(q, health_handler(
                                 [authorization |-> request.authorization,
                                  cookie |-> None],
                                 GuardEnv, [kind |-> "status"]))
          [] handler = "list_routes" -> q
          [] handler = "create_route" ->
                 IF validate_route(request.body.val) THEN q
                 ELSE answered(q, api_response(400))
          [] handler \in {"get_route", "delete_route", "update_route"} ->
                 IF parse_id(request.path[2]).ok THEN q
                 ELSE answered(q, api_response(400))

\* A request reaches the router.
AdminReceive(t) ==
    /\ req[t].pc \in {"idle", "done"}
    /\ \E request \in AdminRequests(t) :
          req' = [req EXCEPT ![t] =
                     dispatched(req[t], request,
                                admin_router(
                                    is_admin_api_enabled(env.enable_admin_api,
                                                         env.config_backend),
                                    request.method, request.path))]
    /\ UNCHANGED <<config, cache, now, env, server, harness_vars>>

\* list_routes and get_route: one query, then the answer.
AdminQuery(t) ==
    /\ req[t].pc = "store"
    /\ req[t].handler \in {"list_routes", "get_route"}
    /\ req' = [req EXCEPT ![t] =
          answered([req[t] EXCEPT !.touched = {"read"}],
                   IF req[t].handler = "get_route"
                      /\ ~\E r \in server.rows :
                             r.id = parse_id(req[t].request.val.path[2]).val
                   THEN api_response(404)
                   ELSE api_response(200))]
    /\ UNCHANGED <<config, cache, now, env, server, harness_vars>>

\* create_route up to the reload: the INSERT.
AdminInsert(t) ==
    /\ req[t].pc = "store"
    /\ req[t].handler = "create_route"
    /\ server.next_id <= MaxId
    /\ server' = [rows |-> server.rows
                              \cup {Row(server.next_id, req[t].request.val.body.val)},
                  next_id |-> server.next_id + 1]
    /\ req' = [req EXCEPT ![t].pc = "reload_read", ![t].touched = {"write"}]
    /\ UNCHANGED <<config, cache, now, env, harness_vars>>

\* delete_route up to the reload: the row is looked up, then deleted.
AdminDelete(t) ==
    /\ req[t].pc = "store"
    /\ req[t].handler = "delete_route"
    /\ LET id == parse_id(req[t].request.val.path[2]).val IN
       IF \E r \in server.rows : r.id = id
       THEN /\ server' = [server EXCEPT !.rows = {r \in server.rows : r.id # id}]
            /\ req' = [req EXCEPT ![t].pc = "reload_read",
                                  ![t].touched = {"read", "write"}]
       ELSE /\ server' = server
            /\ req' = [req EXCEPT ![t] =
                          answered([req[t] EXCEPT !.touched = {"read"}],
                                   api_response(404))]
    /\ UNCHANGED <<config, cache, now, env, harness_vars>>

\* The task after the provider's half of load_config.
reload_read(task, loaded) ==
    IF loaded.ok
    THEN [task EXCEPT !.pc = "reload_write", !.pending = Some(loaded.config),
                      !.touched = task.touched \cup {"reload"}]
    ELSE answered([task EXCEPT !.touched = task.touched \cup {"reload"}],
                  api_response(500))

\* config_manager.load_config(), first half: the provider reads the
\* database and validates what it read.
AdminReloadRead(t) ==
    /\ req[t].pc = "reload_read"
    /\ req' = [req EXCEPT ![t] =
          reload_read(req[t],
                      load_config(config, postgres_read(store_read(server.rows))))]
    /\ UNCHANGED <<config, cache, now, env, server, harness_vars>>

\* load_config, second half: the configuration in memory is replaced; the
\* handler then answers.
AdminReloadWrite(t) ==
    /\ req[t].pc = "reload_write"
    /\ config' = req[t].pending.val
    /\ req' = [req EXCEPT ![t] = answered(req[t], api_response(200))]
    /\ UNCHANGED <<cache, now, env, server, harness_vars>>

NextAdmin ==
    \E t \in AdminTasks :
        \/ AdminReceive(t)
        \/ AdminQuery(t)
        \/ AdminInsert(t)
        \/ AdminDelete(t)
        \/ AdminReloadRead(t)
        \/ AdminReloadWrite(t)

SpecAdmin == InitAdmin /\ [][NextAdmin]_vars

AdminEnabled == is_admin_api_enabled(env.enable_admin_api, env.config_backend)

\* The request carries credentials the guard accepts.
Authenticated(request) ==
    bearer_accepted(request.authorization, env.admin_token)

Answered(t, status) ==
    req[t].response.some /\ req[t].response.val.status = status

\* C22: every administrative operation is admitted only if bearer or session
\* authentication succeeds; an unauthenticated request never reads or
\* mutates the rule store and never triggers a reload.
C22_AdmittedOnlyIfAuthenticated ==
    \A t \in AdminTasks :
        (req[t].touched # {} \/ (AdminEnabled /\ Answered(t, 200)))
            => Authenticated(req[t].request.val)

\* What does hold: /admin/health answers 200 only to an authenticated
\* request, and touches nothing.
C22_HealthGuarded ==
    \A t \in AdminTasks :
        req[t].handler = "health_handler" =>
            /\ req[t].touched = {}
            /\ Answered(t, 200) => Authenticated(req[t].request.val)

\* The rule of a dto is in the configuration in memory.
InTable(dto) ==
    \E i \in 1..Len(config.routes) :
        /\ config.routes[i].host = dto.host
        /\ config.routes[i].path = dto.path
        /\ config.routes[i].require = require_config_to_value(dto.require)

InStore(dto) ==
    \E r \in server.rows :
        r.host = dto.host /\ r.path = dto.path
        /\ r.require = require_config_to_value(dto.require)

\* A request without any credentials has created a rule: it is in the
\* database and in the table, and the answer was 200.
C22_UnauthenticatedCreate ==
    \E t \in AdminTasks :
        /\ req[t].pc = "done" /\ req[t].handler = "create_route"
        /\ req[t].request.val.authorization = None
        /\ Answered(t, 200)
        /\ InStore(DtoFor(t)) /\ InTable(DtoFor(t))

\* C25: the admin API is enabled iff AUTHGATE_ENABLE_ADMIN_API is true and
\* the backend is postgres; when it is not enabled every request under
\* /admin, unknown paths and valid credentials included, is answered 403.
C25_DisabledAnswers403 ==
    /\ AdminEnabled <=> (/\ env.enable_admin_api.some
                         /\ to_lowercase(env.enable_admin_api.val) = s_true
                         /\ env.config_backend = Some(s_postgres))
    /\ ~AdminEnabled => \A t \in AdminTasks :
                            req[t].response.some => Answered(t, 403)

\* What does hold when the admin API is not enabled: no request reaches the
\* store, and every answer is 403 except 405 to a method other than GET or
\* HEAD on /admin/health.
C25_DisabledTouchesNothing ==
    ~AdminEnabled =>
        \A t \in AdminTasks :
            /\ req[t].touched = {}
            /\ req[t].response.some =>
                  \/ Answered(t, 403)
                  \/ /\ Answered(t, 405)
                     /\ req[t].request.val.path = <<"health">>
                     /\ req[t].request.val.method \notin {"GET", "HEAD"}

\* With the admin API not enabled, a POST to /admin/health was answered 405.
C25_MethodNotAllowed ==
    /\ ~AdminEnabled
    /\ \E t \in AdminTasks :
          /\ req[t].pc = "done" /\ Answered(t, 405)
          /\ req[t].request.val.method = "POST"
          /\ req[t].request.val.path = <<"health">>

\* The create of task t has been answered with success.
CreateAcknowledged(t) ==
    req[t].pc = "done" /\ req[t].handler = "create_route" /\ Answered(t, 200)

\* C26: for each admin mutation the store write happens before a reload,
\* which completes before the success response is sent; hence a forward-auth
\* request that starts after a success response is matched against a table
\* that reflects the mutation.
C26_AcknowledgedInTable ==
    \A t \in AdminTasks :
        /\ (Answered(t, 200) /\ req[t].handler \in {"create_route", "delete_route"})
               => {"write", "reload"} \subseteq req[t].touched
        /\ (CreateAcknowledged(t) /\ InStore(DtoFor(t))) => InTable(DtoFor(t))

\* What does hold: within one handler the order is write, reload, answer,
\* and a rule in the table has been in the database.
C26_WriteReloadAnswer ==
    [][ \A t \in AdminTasks :
          /\ (req[t].pc # "done" /\ req'[t].pc = "done"
              /\ req'[t].response.val.status = 200
              /\ req[t].handler \in {"create_route", "delete_route"})
                 => /\ req[t].pc = "reload_write"
                    /\ {"write", "reload"} \subseteq req[t].touched
                    /\ config' = req[t].pending.val
          /\ (req[t].pc = "reload_read" /\ req'[t].pc = "reload_write")
                 => (\A r \in server.rows :
                        \E i \in 1..Len(req'[t].pending.val.routes) :
                            req'[t].pending.val.routes[i].host = r.host)
      ]_vars

\* Both creates were answered with success and both rows are in the
\* database, yet the table in memory lacks one of the rules.
C26_LostMutation ==
    /\ \A t \in AdminTasks : CreateAcknowledged(t) /\ InStore(DtoFor(t))
    /\ \E t \in AdminTasks : ~InTable(DtoFor(t))

(***************************************************************************)
(* authorize on rules whose scopes or teams clause is not well formed.     *)
(***************************************************************************)
\* Clause values beside the well-formed ones: not a list, a list with an
\* entry that is no object, an entry lacking a field, a team whose inner
\* scopes are not a list.
ScopesClauses ==
    { Absent, JArr(<<JScope(s_client, s_access)>>),
      JStr(s_x), JObj([resource_type |-> JStr(s_client)]),
      JArr(<<JStr(s_x)>>),
      JArr(<<JScope(s_client, s_access), JObj([resource_type |-> JStr(s_client)])>>) }
TeamsClauses ==
    { Absent, JArr(<<JObj([id |-> JStr(s_team1)])>>),
      JStr(s_x), JNum(1),
      JArr(<<JNum(1)>>),
      JArr(<<JObj([id |-> JStr(s_team1), scopes |-> JStr(s_x)])>>) }
MalformedRequires ==
    { Require(r, Absent, sc, te) :
        r \in {Absent, JArr(<<JStr(s_admin)>>)},
        sc \in ScopesClauses, te \in TeamsClauses }

InitMalformed ==
    /\ HarnessIdle
    /\ args \in [fn : {"authorize"}, session : AuthzSessions,
                 require : MalformedRequires]
    /\ ret = Idle

SpecMalformed == InitMalformed /\ [][CallAuthorize]_vars

\* The shape of a ScopeDemand: an object with textual resource_type and
\* action and, if any, a textual or null resource_id.
ScopeDemandShape(v) ==
    /\ v.t = "obj"
    /\ HasStr(v, "resource_type") /\ HasStr(v, "action")
    /\ "resource_id" \in DOMAIN v.v => v.v.resource_id.t \in {"str", "null"}

ScopeListShape(v) ==
    v.t = "arr" /\ \A i \in 1..Len(v.v) : ScopeDemandShape(v.v[i])

\* The shape of a TeamDemand: an object whose id and name, if any, are text
\* or null and whose scopes, if any, are null or a list of ScopeDemands.
TeamDemandShape(v) ==
    /\ v.t = "obj"
    /\ "id" \in DOMAIN v.v => v.v.id.t \in {"str", "null"}
    /\ "name" \in DOMAIN v.v => v.v.name.t \in {"str", "null"}
    /\ "scopes" \in DOMAIN v.v =>
           (v.v.scopes.t = "null" \/ ScopeListShape(v.v.scopes))

TeamListShape(v) ==
    v.t = "arr" /\ \A i \in 1..Len(v.v) : TeamDemandShape(v.v[i])

MalformedClauses(require) ==
    \/ json_get(require, "scopes").some /\ ~ScopeListShape(json_get(require, "scopes").val)
    \/ json_get(require, "teams").some /\ ~TeamListShape(json_get(require, "teams").val)

\* A list one of whose entries has not the shape.
MalformedEntry(require) ==
    \/ /\ json_get(require, "scopes").some
       /\ json_get(require, "scopes").val.t = "arr"
       /\ ~ScopeListShape(json_get(require, "scopes").val)
    \/ /\ json_get(require, "teams").some
       /\ json_get(require, "teams").val.t = "arr"
       /\ ~TeamListShape(json_get(require, "teams").val)

\* C27: for every principal, if the scopes or teams clause of the matched
\* rule is malformed (the clause value or an entry has not the ScopeDemand /
\* TeamDemand shape), authorize returns Error, never Authorized and never
\* Unauthorized.
C27_MalformedIsError ==
    (ret # Idle /\ MalformedClauses(args.require)) => ret.kind = "Error"

\* What does hold: a list with a malformed entry never yields Authorized
\* (it yields Error unless an earlier clause has already refused).
C27_MalformedEntryNotAuthorized ==
    (ret # Idle /\ MalformedEntry(args.require)) => ret.kind # "Authorized"

\* A rule whose only clause is a scopes value that is not a list has
\* authorized a principal with no role, permission or team.
C27_MalformedAuthorized ==
    /\ ret # Idle /\ ret.kind = "Authorized"
    /\ args.require = Require(Absent, Absent, JStr(s_x), Absent)
    /\ args.session.user.roles = <<>> /\ args.session.user.teams = <<>>

\* A rule with a roles clause the principal fails and a malformed scopes
\* entry has answered Unauthorized.
C27_MalformedUnauthorized ==
    /\ ret # Idle /\ ret.kind = "Unauthorized"
    /\ MalformedEntry(args.require)

(***************************************************************************)
(* Patterns of the loaded table.                                           *)
(***************************************************************************)
PathPatternWellFormed(p) ==
    \A i \in 1..Len(p) : p[i] = "*" => i = Len(p)

HostPatternWellFormed(h) ==
    \/ \A i \in 1..Len(h) : h[i] # "*"
    \/ Len(h) >= 3 /\ h[1] = "*" /\ h[2] = "."

RouteWellFormed(route) ==
    PathPatternWellFormed(route.path) /\ HostPatternWellFormed(route.host)

\* C28: every rule of a successfully loaded table has well-formed patterns:
\* its path pattern contains * at most once and only as the final character,
\* its host pattern contains no * or equals *.X for a non-empty X; a load
\* containing a rule that violates either condition is rejected.
C28_LoadedPatternsWellFormed ==
    /\ \A i \in 1..Len(config.routes) : RouteWellFormed(config.routes[i])
    /\ (args # Idle /\ args.fn = "load_config" /\ args.source.content.ok
        /\ \E i \in 1..Len(args.source.content.val.routes) :
              ~RouteWellFormed(args.source.content.val.routes[i]))
       => ~ret.ok

\* A load whose rules carry a*b with /*a and the bare *. has succeeded and
\* the rules are in the table in memory.
C28_IllFormedLoaded ==
    /\ server = "serving"
    /\ args # Idle /\ args.fn = "load_config" /\ ret.ok
    /\ Len(config.routes) = 2
    /\ config.routes[1].host = hp_star_mid /\ config.routes[1].path = pp_star_mid
    /\ config.routes[2].host = hp_star_dot

(***************************************************************************)
(* Where cache entries come from.                                          *)
(***************************************************************************)
\* The entries of after that are new or differ from those of before.
Written(before, after) ==
    {t \in DOMAIN after : t \notin DOMAIN before \/ after[t] # before[t]}

\* Request r holds the parsed body of a 2xx answer of the identity service
\* to a call made for token t.
AnsweredFor(r, t) ==
    /\ req[r].pc = "cache_set"
    /\ req[r].session_token = Some(t)
    /\ req[r].reply.some /\ req[r].reply.val.kind = "session"

\* C29: a cache entry (t, s) exists only if the identity service answered a
\* request for token t with a 2xx response whose body parsed to s; a
\* validate_session call that fails (transport error, non-2xx status, parse
\* error) or is cancelled before that point writes nothing to the cache.
C29_EntriesFromIdentityAnswers ==
    [][ /\ \A t \in Written(cache, cache') :
              \E r \in Slots :
                  /\ AnsweredFor(r, t)
                  /\ cache'[t].session = req[r].reply.val.session
                  /\ req'[r].pc # "cancelled"
        /\ \A r \in Slots :
              ( \/ req[r].pc # "cancelled" /\ req'[r].pc = "cancelled"
                \/ /\ req[r].pc = "identity" /\ req'[r].reply.some
                   /\ req'[r].reply.val.kind # "session" )
              => Written(cache, cache') = {}
      ]_vars

\* An entry written for one token stands beside the entry of another token,
\* and the request that wrote it has been answered.
C29_Witness ==
    \E r \in Slots :
        /\ req[r].pc = "done"
        /\ req[r].reply.some /\ req[r].reply.val.kind = "session"
        /\ req[r].session_token.some
        /\ req[r].session_token.val \in DOMAIN cache
        /\ cache[req[r].session_token.val].session = req[r].reply.val.session
        /\ \E t \in DOMAIN cache :
              /\ t # req[r].session_token.val
              /\ cache[t].session # req[r].reply.val.session

\* A call that failed after a miss, an entry of another token being cached:
\* the cache holds nothing for the failed call's token.
C29_FailedWroteNothing ==
    \E r \in Slots :
        /\ req[r].pc = "done"
        /\ req[r].reply.some /\ req[r].reply.val.kind # "session"
        /\ req[r].session_token.val \notin DOMAIN cache
        /\ DOMAIN cache # {}

(***************************************************************************)
(* validate_session before a cache that can fail (RedisCache).             *)
(***************************************************************************)
\* What the store does to a GET: no connection, an error reply, no such key
\* (a nil reply, which is no String), or a stored text that deserializes to
\* a session or to nothing.
RedisGets ==
    {[kind |-> "connect_error"], [kind |-> "command_error"], [kind |-> "nil"],
     [kind |-> "value", parsed |-> None]}
    \cup {[kind |-> "value", parsed |-> Some(x)] : x \in {sess_admin, sess_user}}

\* What the store does to a SETEX.
RedisSets == {[kind |-> "connect_error"], [kind |-> "command_error"], [kind |-> "ok"]}

\* RedisCache::get
redis_get(got) ==
    IF got.kind = "value" THEN got.parsed ELSE None

\* RedisCache::set
redis_set(put) ==
    IF put.kind = "ok" THEN Ok(put) ELSE Err

\* A validate_session that hands the error of a failed set to its caller.
validate_session_set_propagates(cache_enabled, got, reply, put) ==
    IF cache_enabled /\ redis_get(got).some
    THEN [result |-> Ok(redis_get(got).val), called |-> FALSE,
          stored |-> FALSE, warned |-> FALSE]
    ELSE IF ~session_result_of(reply).ok
    THEN [result |-> Err, called |-> TRUE, stored |-> FALSE, warned |-> FALSE]
    ELSE IF cache_enabled /\ ~redis_set(put).ok
    THEN [result |-> Err, called |-> TRUE, stored |-> FALSE, warned |-> TRUE]
    ELSE [result |-> session_result_of(reply), called |-> TRUE,
          stored |-> cache_enabled, warned |-> FALSE]

\* AuthService::validate_session over the cache's outcomes: its result,
\* whether the identity service was called, whether the session was stored
\* and whether the failure to store was logged.
validate_session_redis(cache_enabled, got, reply, put) ==
    IF cache_enabled /\ redis_get(got).some
    THEN [result |-> Ok(redis_get(got).val), called |-> FALSE,
          stored |-> FALSE, warned |-> FALSE]
    ELSE IF ~session_result_of(reply).ok
    THEN [result |-> Err, called |-> TRUE, stored |-> FALSE, warned |-> FALSE]
    ELSE [result |-> session_result_of(reply), called |-> TRUE,
          stored |-> cache_enabled /\ redis_set(put).ok,
          warned |-> cache_enabled /\ ~redis_set(put).ok]

InitRedis ==
    /\ HarnessIdle
    /\ args \in [fn : {"validate_session"}, cache_enabled : BOOLEAN,
                 got : RedisGets, reply : IdentityReplies, put : RedisSets]
    /\ ret = Idle

\* The handler's call of validate_session and the response it builds.
answered_with(validated) ==
    [validated |-> validated, response |-> handler_response(validated.result)]

CallValidateSession ==
    /\ args # Idle /\ args.fn = "validate_session" /\ ret = Idle
    /\ ret' = answered_with(validate_session_redis(args.cache_enabled, args.got,
                                                   args.reply, args.put))
    /\ UNCHANGED <<pipeline_vars, args, hist>>

SpecRedis == InitRedis /\ [][CallValidateSession]_vars

GetFailed(got) ==
    \/ got.kind \in {"connect_error", "command_error"}
    \/ got.kind = "value" /\ ~got.parsed.some

PutFailed(put) == put.kind \in {"connect_error", "command_error"}

\* C30: cache errors never change a request's outcome: a cache get that
\* fails (connection or deserialization error) behaves as a miss and the
\* identity service is called, and a cache put that fails after a successful
\* identity call is only logged while validate_session still returns the
\* freshly fetched session.
C30_CacheErrorsChangeNothing ==
    (ret # Idle /\ args.cache_enabled) =>
        /\ GetFailed(args.got) =>
              /\ ret.validated.called
              /\ ret.validated.result = session_result_of(args.reply)
              /\ ret.response = handler_response(session_result_of(args.reply))
        /\ (ret.validated.called /\ args.reply.kind = "session" /\ PutFailed(args.put)) =>
              /\ ret.validated.result = Ok(args.reply.session)
              /\ ret.validated.warned /\ ~ret.validated.stored
              /\ ret.response = handler_response(Ok(args.reply.session))

\* The stored text did not deserialize, the identity service answered with
\* the admin's session, the store refused the SETEX: the request is let
\* through as that admin.
C30_Witness ==
    /\ ret # Idle /\ args.cache_enabled
    /\ args.got = [kind |-> "value", parsed |-> None]
    /\ args.reply = [kind |-> "session", session |-> sess_admin]
    /\ args.put.kind = "command_error"
    /\ ret.validated.result = Ok(sess_admin)
    /\ ret.validated.called /\ ret.validated.warned
    /\ ret.response.some /\ ret.response.val.status = 200

(***************************************************************************)
(* The TTL of a cached session on a clock finer than the second.           *)
(* SystemTime::now() is read twice: as_secs() of it in                     *)
(* extract_jwt_expiration, and in full in InMemoryCache::set.  now counts  *)
(* ticks, TicksPerSecond to the second; cache is the one entry of the      *)
(* token, hist the exp claim its TTL was derived from.                     *)
(***************************************************************************)
TicksPerSecond == 2
MaxTicks == 7
MaxExp == 3

\* Duration::as_secs of the clock.
as_secs(ticks) == ticks \div TicksPerSecond
\* Duration::from_secs
from_secs(secs) == secs * TicksPerSecond

\* The decoded token: not a JWT, a JWT without exp, a JWT with exp.
TtlClaims ==
    {None, Some([exp |-> None])} \cup {Some([exp |-> Some(e)]) : e \in 0..MaxExp}

InitTtl ==
    /\ config = Idle /\ env = Idle /\ req = Idle /\ server = Idle
    /\ cache = None
    /\ now = 0
    /\ args = Idle /\ ret = Idle
    /\ hist = None

\* Lines 98-116 of validate_session with InMemoryCache::set.
ttl_put(claims, ttl) ==
    /\ args' = [fn |-> "set", claims |-> claims]
    /\ cache' = Some([expiry |-> now + from_secs(IF ttl.some THEN ttl.val ELSE DefaultTtl)])
    /\ ret' = [ttl |-> IF ttl.some THEN ttl.val ELSE DefaultTtl, secs |-> as_secs(now)]
    /\ hist' = IF ttl.some THEN claims.val.exp ELSE None

TtlPut ==
    /\ \E claims \in TtlClaims : ttl_put(claims, remaining_secs(claims, as_secs(now)))
    /\ UNCHANGED <<config, now, env, req, server>>

\* InMemoryCache::get
TtlGet ==
    /\ cache.some
    /\ args' = [fn |-> "get"]
    /\ ret' = [served |-> not_expired(cache.val.expiry, now), at |-> now]
    /\ cache' = IF not_expired(cache.val.expiry, now) THEN cache ELSE None
    /\ UNCHANGED <<config, now, env, req, server, hist>>

TtlTick ==
    /\ now < MaxTicks
    /\ now' = now + 1
    /\ UNCHANGED <<config, cache, env, req, server, args, ret, hist>>

NextTtl == TtlPut \/ TtlGet \/ TtlTick

SpecTtl == InitTtl /\ [][NextTtl]_vars

HasFutureExp(claims, secs) ==
    claims.some /\ claims.val.exp.some /\ claims.val.exp.val > secs

\* The TTL of the put is exp - now in whole seconds for a JWT whose exp is
\* present and later than now, 300 seconds otherwise, and so at least 1.
C31_TtlValue ==
    (args # Idle /\ args.fn = "set") =>
        /\ ret.ttl = IF HasFutureExp(args.claims, ret.secs)
                     THEN args.claims.val.exp.val - ret.secs
                     ELSE DefaultTtl
        /\ ret.ttl >= 1

\* C31: the TTL passed to the cache put after a successful identity call is
\* exp - now (in whole seconds) when the token is a JWT whose exp claim is
\* present and exp > now, and 300 seconds when exp is absent, exp <= now or
\* the token is not a JWT; the TTL is therefore always at least 1 second,
\* and the cached entry of a JWT with a future exp is not served after exp.
C31_TtlAndExpiry ==
    /\ C31_TtlValue
    /\ (args # Idle /\ args.fn = "get" /\ ret.served /\ hist.some)
          => ret.at <= from_secs(hist.val)

\* What does hold of the entry of a JWT: it is served less than one second
\* past exp.
C31_ServedWithinSecondOfExp ==
    (args # Idle /\ args.fn = "get" /\ ret.served /\ hist.some)
        => ret.at < from_secs(hist.val + 1)

\* The session of a JWT whose exp is second 1, cached half a second after
\* second 0, has been served half a second after second 1.
C31_ServedAfterExp ==
    /\ args # Idle /\ args.fn = "get" /\ ret.served
    /\ hist = Some(1)
    /\ ret.at > from_secs(1)

(***************************************************************************)
(* The read guards of the RwLock<Config> along handle_forward_auth         *)
(* (proxy.rs:83-132), beside a reload.  req[r] is a request: where it is,  *)
(* whether it holds a read guard, the rule and token it found and the      *)
(* version of the configuration it cloned; config is the version in        *)
(* memory, server the loader.                                              *)
(***************************************************************************)
LeaseSlots == {"q1", "q2"}
MaxVersion == 2

NoLease ==
    [pc |-> "idle", guard |-> FALSE, matched |-> FALSE, token |-> FALSE, seen |-> 0]

\* The three functions that lock, and the state in which each holds the
\* guard.
Locking ==
    [match_route |-> "matching", get_cookie_name |-> "reading_cookie_name",
     get_config |-> "cloning_config", get_config_login |-> "cloning_config_login"]

\* A get_config whose caller keeps the guard with the configuration.
holds_after_return_config(fn) == fn = "cloning_config"

\* Whether the guard taken in fn outlives fn: in match_route it is a local
\* dropped on return, in get_cookie_name and get_config a temporary dropped
\* at the end of the statement.
holds_after_return(fn) == FALSE

InitLease ==
    /\ config = 0
    /\ req = [r \in LeaseSlots |-> NoLease]
    /\ server = [pending |-> FALSE]
    /\ env \in [cache_enabled : BOOLEAN]
    /\ cache = Idle /\ now = Idle
    /\ args = Idle /\ ret = Idle /\ hist = Idle

LeaseReceive(r) ==
    /\ req[r].pc \in {"idle", "done"}
    /\ req' = [req EXCEPT ![r] = [NoLease EXCEPT !.pc = "match_route"]]
    /\ UNCHANGED <<config, cache, now, env, server, harness_vars>>

\* self.config.read().await
LeaseAcquire(r) ==
    /\ req[r].pc \in DOMAIN Locking
    /\ req' = [req EXCEPT ![r].pc = Locking[req[r].pc], ![r].guard = TRUE]
    /\ UNCHANGED <<config, cache, now, env, server, harness_vars>>

\* Where the handler goes on when the locking function has returned.
lease_return(q, found, cache_enabled, version) ==
    IF q.pc = "matching"
    THEN [q EXCEPT !.pc = "get_cookie_name", !.matched = found]
    ELSE IF q.pc = "reading_cookie_name"
    THEN [q EXCEPT !.token = found,
                   !.pc = IF ~q.matched THEN "done"
                          ELSE IF found THEN "get_config" ELSE "get_config_login"]
    ELSE IF q.pc = "cloning_config_login"
    THEN [q EXCEPT !.pc = "done", !.seen = version]
    ELSE [q EXCEPT !.pc = IF cache_enabled THEN "cache_get" ELSE "identity",
                   !.seen = version]

LeaseReturn(r) ==
    /\ req[r].guard
    /\ req[r].pc \in {Locking[f] : f \in DOMAIN Locking}
    /\ \E found \in BOOLEAN :
          req' = [req EXCEPT ![r] =
                     [lease_return(req[r], found, env.cache_enabled, config)
                         EXCEPT !.guard = holds_after_return(req[r].pc)]]
    /\ UNCHANGED <<config, cache, now, env, server, harness_vars>>

\* validate_session: the cache get, the identity call, the cache put.
LeaseCacheGet(r) ==
    /\ req[r].pc = "cache_get"
    /\ \E hit \in BOOLEAN :
          req' = [req EXCEPT ![r].pc = IF hit THEN "done" ELSE "identity"]
    /\ UNCHANGED <<config, cache, now, env, server, harness_vars>>

LeaseIdentity(r) ==
    /\ req[r].pc = "identity"
    /\ \E success \in BOOLEAN :
          req' = [req EXCEPT ![r].pc = IF success /\ env.cache_enabled
                                       THEN "cache_put" ELSE "done"]
    /\ UNCHANGED <<config, cache, now, env, server, harness_vars>>

LeaseCachePut(r) ==
    /\ req[r].pc = "cache_put"
    /\ req' = [req EXCEPT ![r].pc = "done"]
    /\ UNCHANGED <<config, cache, now, env, server, harness_vars>>

\* config.rs:40-46: the provider has returned.
LeaseReloadRead ==
    /\ ~server.pending /\ config < MaxVersion
    /\ server' = [pending |-> TRUE]
    /\ UNCHANGED <<config, cache, now, env, req, harness_vars>>

\* config.rs:48-49: the write guard is granted when no read guard is out.
LeaseReloadWrite ==
    /\ server.pending
    /\ \A r \in LeaseSlots : ~req[r].guard
    /\ config' = config + 1
    /\ server' = [pending |-> FALSE]
    /\ UNCHANGED <<cache, now, env, req, harness_vars>>

NextLease ==
    \/ \E r \in LeaseSlots : LeaseReceive(r)
    \/ \E r \in LeaseSlots : LeaseAcquire(r)
    \/ \E r \in LeaseSlots : LeaseReturn(r)
    \/ \E r \in LeaseSlots : LeaseCacheGet(r)
    \/ \E r \in LeaseSlots : LeaseIdentity(r)
    \/ \E r \in LeaseSlots : LeaseCachePut(r)
    \/ LeaseReloadRead
    \/ LeaseReloadWrite

SpecLease == InitLease /\ [][NextLease]_vars

\* C32: no forward-auth request holds the read lock of the configuration
\* while a cache call or an identity-service call of that request is in
\* progress: the lock is held only inside match_route, get_cookie_name and
\* get_config, each of which releases it before returning.
C32_NoGuardAcrossCalls ==
    \A r \in LeaseSlots :
        /\ req[r].pc \in {"cache_get", "identity", "cache_put"} => ~req[r].guard
        /\ req[r].guard => req[r].pc \in {Locking[f] : f \in DOMAIN Locking}

\* Both requests wait for the identity service, and a reload has written
\* since one of them cloned the configuration.
C32_Witness ==
    /\ \A r \in LeaseSlots : req[r].pc = "identity"
    /\ \E r \in LeaseSlots : req[r].seen < config

(***************************************************************************)
(* The order of the steps of one request.                                  *)
(***************************************************************************)
\* The place of each step in handle_forward_auth and validate_session.
StepRank ==
    [idle |-> 0, get_cookie_name |-> 1, get_config |-> 2, get_config_login |-> 2,
     cache_clean |-> 3, cache_read |-> 4, identity |-> 5, cache_set |-> 6,
     done |-> 7, panicked |-> 7, cancelled |-> 7]

\* A step of request r that is not the arrival of the next request.
StepsForward(r) ==
    \/ req'[r] = req[r]
    \/ StepRank[req[r].pc] \in {0, 7} /\ req'[r].pc = "get_cookie_name"
    \/ StepRank[req'[r].pc] > StepRank[req[r].pc]

\* The identity call begins after a miss of the cache or, the cache being
\* switched off, with no cache call at all.
IdentityAfterMiss(r) ==
    (req'[r].pc = "identity" /\ req[r].pc # "identity") =>
        \/ /\ req[r].pc = "cache_read"
           /\ ~cache_lookup(cache, req[r].session_token.val, now).some
        \/ req[r].pc = "get_config" /\ ~env.cache_enabled

\* What a request has behind it where it stands.
StepsBehind(q) ==
    /\ q.pc \in {"cache_clean", "cache_read", "identity", "cache_set"}
          => q.matched_route.some /\ q.session_token.some
                /\ ~q.session.some /\ ~q.auth_result.some
    /\ q.pc \in {"cache_clean", "cache_read", "identity"} => ~q.reply.some
    /\ q.pc = "cache_set" =>
          env.cache_enabled /\ q.reply.some /\ q.reply.val.kind = "session"
    /\ q.pc \in {"cache_clean", "cache_read"} => env.cache_enabled
    /\ q.auth_result.some => q.session.some /\ q.matched_route.some
    /\ q.session.some =>
          \/ q.reply.some /\ q.reply.val.kind = "session"
          \/ ~q.reply.some /\ env.cache_enabled

\* C33: within one forward-auth request the steps occur in a fixed forward
\* order with no step repeated: the rule match precedes every cache or
\* identity call, the cache get precedes the identity call, the identity
\* call happens only after a cache miss with a rule matched and a token
\* present, the cache put happens only after a successful identity response,
\* and authorize runs only after a session has been resolved.
C33_StepsInOrder ==
    [][ \A r \in Slots :
           /\ StepsForward(r)
           /\ IdentityAfterMiss(r)
           /\ StepsBehind(req'[r])
           /\ (req'[r].pc = "cache_set" /\ req[r].pc # "cache_set") =>
                 /\ req[r].pc = "identity"
                 /\ req'[r].reply.some /\ req'[r].reply.val.kind = "session"
      ]_vars

\* A request has gone through every step: matched, missed the cache, was
\* answered by the identity service, stored the session and was authorized.
C33_Witness ==
    \E r \in Slots :
        /\ req[r].pc = "done" /\ env.cache_enabled
        /\ req[r].matched_route.some /\ req[r].session_token.some
        /\ req[r].reply.some /\ req[r].reply.val.kind = "session"
        /\ req[r].session_token.val \in DOMAIN cache
        /\ req[r].auth_result.some /\ req[r].auth_result.val.kind = "Authorized"

(***************************************************************************)
(* Successive reloads from a store nobody changes.  hist is the store:     *)
(* the file as written, or the rows of table routes; server counts the     *)
(* successful loads and keeps the table the last one replaced.             *)
(***************************************************************************)
MaxLoads == 3

StoredRules ==
    { <<Route(h_ab, pp_all, RequireAdmin), Route(hp_star_b, pp_all, RequireUser)>>,
      <<Route(h_ab, pp_a_star, RequireAdmin), Route(h_ab, pp_all, RequireUser)>>,
      <<Route(hp_star_b, pp_a_star, RequireAdmin), Route(h_ab, pp_all, RequireUser),
        Route(h_ab, pp_all, RequireAdmin)>>,
      <<Route(h_ab, pp_all, RequireAdmin)>> }

\* The orders in which the rows of a table can come back.
Orders(n) ==
    {f \in [1..n -> 1..n] : \A i, j \in 1..n : f[i] = f[j] => i = j}

\* "SELECT host, path, require FROM routes": the rows of the table, in an
\* order the query does not fix.
select_routes(rows, order) == [i \in 1..Len(rows) |-> rows[order[i]]]

InitReload ==
    /\ config = EmptyConfig
    /\ server = [loads |-> 0, previous |-> EmptyConfig]
    /\ env \in [provider : Providers]
    /\ hist \in StoredRules
    /\ cache = Idle /\ now = Idle /\ req = Idle
    /\ args = Idle /\ ret = Idle

\* What the provider reads from the unchanged store.
store_content(provider, rows, order) ==
    Ok(Config(url_session, url_login,
              IF provider = "json" THEN rows ELSE select_routes(rows, order),
              None))

reloaded(loaded) ==
    /\ loaded.ok
    /\ config' = loaded.config
    /\ server' = [loads |-> server.loads + 1, previous |-> config]

\* ConfigManager::load_config, at startup and at each reload.
ReloadStore ==
    /\ server.loads < MaxLoads
    /\ \E order \in Orders(Len(hist)) :
          reloaded(load_config(config,
                       provider_read([provider |-> env.provider,
                           content |-> store_content(env.provider, hist, order)])))
    /\ args' = Idle /\ ret' = Idle
    /\ UNCHANGED <<cache, now, env, req, hist>>

\* A request matched against the table in memory and, beside it, against
\* the table the last reload replaced.
MatchReloaded ==
    /\ server.loads >= 1
    /\ \E host \in {h_ab, h_cab, h_b}, path \in {p_root, p_a} :
          /\ args' = [fn |-> "match_route", host |-> host, path |-> path]
          /\ ret' = [route |-> match_route(config.routes, host, path),
                     before |-> match_route(server.previous.routes, host, path)]
    /\ UNCHANGED <<config, cache, now, env, req, server, hist>>

NextReload == ReloadStore \/ MatchReloaded

SpecReload == InitReload /\ [][NextReload]_vars

\* C34: reloading is idempotent on an unchanged rule store: two successive
\* successful reloads with no store mutation in between yield rule tables
\* with the same rules in the same order, so match_route returns the same
\* rule for every (host, path) before and after the second reload.
C34_ReloadIdempotent ==
    server.loads >= 2 =>
        /\ config.routes = server.previous.routes
        /\ (args # Idle => ret.route = ret.before)

\* What does hold: from the file the reloads are idempotent, and from the
\* database the reloaded table has the same rules as many times each.
C34_SameRulesAnyOrder ==
    server.loads >= 2 =>
        /\ env.provider = "json" => config = server.previous
        /\ Len(config.routes) = Len(server.previous.routes)
        /\ \A i \in 1..Len(config.routes) :
              Cardinality({j \in 1..Len(config.routes) : config.routes[j] = config.routes[i]})
              = Cardinality({j \in 1..Len(config.routes) :
                                server.previous.routes[j] = config.routes[i]})

\* After the second load from the database the same request matches another
\* rule than before it.
C34_OrderChanged ==
    /\ server.loads = 2 /\ env.provider = "postgres"
    /\ args # Idle /\ ret.route.some /\ ret.before.some
    /\ ret.route # ret.before

(***************************************************************************)
(* The AuthService of the pipeline (main.rs:110, kept in AppState) and the *)
(* AuthService that health_handler builds for each request (admin.rs:357), *)
(* before the same identity service.  cache is the InMemoryCache of the    *)
(* pipeline's service, hist the Redis store, server the tokens for which a *)
(* session has been put so far, by either service and by the pipeline's.   *)
(* The clock stands still: every entry is within its TTL.                  *)
(***************************************************************************)
CacheBackends == {"memory", "redis"}
NoEntries == [t \in {} |-> None]

\* CacheFactory::create, called by AuthService::new: the Redis store, or an
\* InMemoryCache of its own.
cache_factory_create(backend, redis) ==
    IF backend = "redis" THEN redis ELSE NoEntries

InitShared ==
    /\ env \in [backend : CacheBackends]
    /\ cache = NoEntries
    /\ hist = NoEntries
    /\ server = [put |-> {}, pipeline |-> {}]
    /\ now = 0
    /\ config = Idle /\ req = Idle
    /\ args = Idle /\ ret = Idle

\* What a validate_session has done.
Validated(by, token, entries, validated) ==
    [by |-> by, token |-> token,
     called |-> ~cache_lookup(entries, token, now).some,
     put_before |-> server.put, pipeline_before |-> server.pipeline,
     result |-> validated.result]

\* handle_forward_auth's validate_session on the service of AppState.
PipelineValidate ==
    \E t \in CacheTokens, reply \in TransparencyReplies :
        LET entries == IF env.backend = "redis" THEN hist ELSE cache
            validated == validate_session(TRUE, entries, t, reply, now)
        IN  /\ cache' = IF env.backend = "redis" THEN cache ELSE validated.cache
            /\ hist' = IF env.backend = "redis" THEN validated.cache ELSE hist
            /\ server' = IF validated.cache # entries
                         THEN [put |-> server.put \cup {t},
                               pipeline |-> server.pipeline \cup {t}]
                         ELSE server
            /\ args' = [fn |-> "handle_forward_auth"]
            /\ ret' = Validated("pipeline", t, entries, validated)
            /\ UNCHANGED <<config, now, env, req>>

\* health_handler's validate_session on a service built for the request and
\* dropped with it.
AdminValidate ==
    \E t \in CacheTokens, reply \in TransparencyReplies :
        LET entries == cache_factory_create(env.backend, hist)
            validated == validate_session(TRUE, entries, t, reply, now)
        IN  /\ hist' = IF env.backend = "redis" THEN validated.cache ELSE hist
            /\ server' = IF validated.cache # entries
                         THEN [server EXCEPT !.put = server.put \cup {t}]
                         ELSE server
            /\ args' = [fn |-> "health_handler"]
            /\ ret' = Validated("admin", t, entries, validated)
            /\ UNCHANGED <<config, cache, now, env, req>>

NextShared == PipelineValidate \/ AdminValidate

SpecShared == InitShared /\ [][NextShared]_vars

\* C35: the admin guard resolves sessions through the same session cache as
\* the decision pipeline: after the pipeline has cached a session for token
\* t, an admin request presenting t within the TTL is authenticated from
\* that cached session without a new identity-service call, and a session
\* resolved by one admin request is cached for the next.
C35_AdminUsesSharedCache ==
    (ret # Idle /\ ret.by = "admin" /\ ret.token \in ret.put_before) => ~ret.called

\* What does hold: with the Redis backend the two services share the store,
\* and the pipeline is always served from what the pipeline has put.
C35_SharedOnRedis ==
    ret # Idle =>
        /\ (env.backend = "redis" /\ ret.token \in ret.put_before) => ~ret.called
        /\ (ret.by = "pipeline" /\ ret.token \in ret.pipeline_before) => ~ret.called

\* With the in-memory backend an admin request has called the identity
\* service for a token whose session the pipeline holds in its cache.
C35_AdminCalledIdentity ==
    /\ ret # Idle /\ ret.by = "admin" /\ ret.called
    /\ env.backend = "memory"
    /\ ret.token \in DOMAIN cache /\ ret.token \in ret.pipeline_before

(***************************************************************************)
(* The table requests are decided against.                                 *)
(***************************************************************************)
\* C36: no forward-auth request is ever decided against the initial empty
\* (never-loaded) rule table: the server starts accepting requests only
\* after the first load_config has succeeded, and if that first load fails
\* the process exits without serving any request.
C36_NeverServesUnloaded ==
    /\ server \in {"boot", "exited"} => \A r \in Slots : req[r] = NoRequest
    /\ server \in {"boot", "exited"} => config = EmptyConfig
    /\ server = "serving" => config # EmptyConfig /\ validate_config(config)
    /\ \A r \in Slots :
          /\ req[r].pc # "idle" => server = "serving"
          /\ req[r].config.some => req[r].config.val # EmptyConfig

\* A request has been answered from a rule of the loaded table.
C36_Witness ==
    /\ server = "serving"
    /\ \E r \in Slots :
          /\ req[r].pc = "done" /\ req[r].matched_route.some
          /\ \E i \in 1..Len(config.routes) : config.routes[i] = req[r].matched_route.val

\* The first load has failed and the process is gone, no request served.
C36_Exited ==
    server = "exited" /\ config = EmptyConfig /\ \A r \in Slots : req[r] = NoRequest

(***************************************************************************)
(* Admin mutations that answer with an error.                              *)
(***************************************************************************)
Mutation(t) == req[t].handler \in {"create_route", "delete_route"}

AnsweredError(t) ==
    req[t].pc = "done" /\ req[t].response.some /\ req[t].response.val.status >= 400

\* The table a load of the store as it is would give.
TableOfStore ==
    load_config(EmptyConfig, postgres_read(store_read(server.rows)))

\* No admin request is under way.
AdminQuiet == \A t \in AdminTasks : req[t].pc \in {"idle", "done"}

\* C37: an admin mutation (create, update or delete route) that answers
\* with an error status has changed neither the rule store nor the
\* in-memory rule table; in particular, after any completed mutation,
\* successful or not, the in-memory rule table equals the content of the
\* rule store.
C37_FailedMutationChangesNothing ==
    /\ \A t \in AdminTasks :
          (Mutation(t) /\ AnsweredError(t)) => "write" \notin req[t].touched
    /\ AdminQuiet => (TableOfStore.ok /\ config = TableOfStore.config)

\* What does hold: a mutation refused with 400 or 404 has written nothing.
C37_RefusedWritesNothing ==
    \A t \in AdminTasks :
        (Mutation(t) /\ (Answered(t, 400) \/ Answered(t, 404)))
            => "write" \notin req[t].touched

\* The only rule has been deleted from the store, the reload that followed
\* was rejected for want of a rule, the request was answered 500, and the
\* table in memory still holds the rule.
C37_DeletedButServed ==
    /\ AdminQuiet
    /\ \E t \in AdminTasks :
          /\ req[t].handler = "delete_route" /\ Answered(t, 500)
          /\ "write" \in req[t].touched
    /\ server.rows = {}
    /\ config.routes # <<>>

(***************************************************************************)
(* Revocation.  hist[t] tells whether the identity service has come to     *)
(* reject token t for good, and the expiry of the last entry put for t;    *)
(* requests for the rule of TransparencyRoute go through validate_session  *)
(* and the rest of the handler.                                            *)
(***************************************************************************)
NotRevoked == [revoked |-> FALSE, last_expiry |-> None]

InitRevoke ==
    /\ env \in [cache_enabled : BOOLEAN]
    /\ cache = NoEntries
    /\ now = 0
    /\ hist = [t \in CacheTokens |-> NotRevoked]
    /\ config = Idle /\ req = Idle /\ server = Idle
    /\ args = Idle /\ ret = Idle

\* The expiry of the entry a validate_session has put, if it has put one.
put_expiry(before, validated, token, last) ==
    IF token \in DOMAIN validated.cache
       /\ (token \notin DOMAIN before \/ validated.cache[token] # before[token])
    THEN Some(validated.cache[token].expiry)
    ELSE last

revoke_request(t, reply, validated) ==
    /\ cache' = validated.cache
    /\ hist' = [hist EXCEPT ![t].last_expiry =
                   put_expiry(cache, validated, t, hist[t].last_expiry)]
    /\ args' = [fn |-> "handle_forward_auth", token |-> t, reply |-> reply]
    /\ ret' = [at |-> now, revoked |-> hist[t].revoked,
               last_before |-> hist[t].last_expiry,
               response |-> handler_response(validated.result)]

\* A matched request carrying token t; the identity service, if asked,
\* rejects a revoked token.
RevokeRequest ==
    /\ \E t \in CacheTokens, reply \in TransparencyReplies :
          /\ hist[t].revoked => reply.kind = "status"
          /\ revoke_request(t, reply,
                            validate_session(env.cache_enabled, cache, t, reply, now))
    /\ UNCHANGED <<config, now, env, req, server>>

\* From now on the identity service rejects t.
Revoke ==
    /\ \E t \in CacheTokens :
          /\ ~hist[t].revoked
          /\ hist' = [hist EXCEPT ![t].revoked = TRUE]
    /\ UNCHANGED <<config, cache, now, env, req, server, args, ret>>

RevokeTick ==
    /\ now < MaxTime
    /\ now' = now + 1
    /\ UNCHANGED <<config, cache, env, req, server, args, ret, hist>>

NextRevoke == RevokeRequest \/ Revoke \/ RevokeTick

SpecRevoke == InitRevoke /\ [][NextRevoke]_vars

LoginRedirected(response) ==
    response = Some(redirect_response(create_login_redirect(url_login, TransparencyUrl)))

\* C38: revocation eventually takes effect: if from some point on the
\* identity service rejects token t, then Allow outcomes for t stop no later
\* than the expiry of the last cache entry put for t, and from then on every
\* matched request carrying t is redirected to login, because a cache hit
\* never extends an entry's expiry and a rejected identity call never
\* writes an entry.
C38_RevocationTakesEffect ==
    [][ \A t \in CacheTokens :
           /\ hist[t].revoked => hist'[t] = hist[t]
           /\ (t \in DOMAIN cache /\ t \in DOMAIN cache' /\ cache'[t] # cache[t])
                 => ~hist[t].revoked /\ hist'[t].last_expiry = Some(cache'[t].expiry)
           /\ (args' # Idle /\ args'.token = t /\ ret'.revoked) =>
                 \/ ret'.last_before.some /\ ret'.at <= ret'.last_before.val
                 \/ LoginRedirected(ret'.response)
      ]_vars

\* Token tok1 was revoked while its session was cached; past the entry's
\* expiry a request carrying it has been redirected to login.
C38_Witness ==
    /\ args # Idle /\ args.token = tok1
    /\ ret.revoked /\ hist[tok1].last_expiry.some
    /\ ret.at > hist[tok1].last_expiry.val
    /\ LoginRedirected(ret.response)

\* Before the entry's expiry the revoked token was still let through.
C38_AllowedUntilExpiry ==
    /\ args # Idle /\ args.token = tok1
    /\ ret.revoked /\ hist[tok1].last_expiry.some
    /\ ret.at <= hist[tok1].last_expiry.val
    /\ ret.response.some /\ ret.response.val.status = 200

(***************************************************************************)
(* What a request changes outside itself.                                  *)
(***************************************************************************)
\* The entries of the cache that have not run out.
Live(entries, time) ==
    {t \in DOMAIN entries : not_expired(entries[t].expiry, time)}

\* Request r is at the put of the session the identity service has just
\* returned for its token t.
PutsFresh(r, t) ==
    /\ req[r].pc = "cache_set" /\ req'[r].pc # "cancelled"
    /\ req[r].session_token = Some(t)
    /\ cache'[t].session = req[r].reply.val.session

\* C39: a forward-auth request never modifies the rule table and never
\* removes a cache entry; its only possible effect on shared state is one
\* put of the session freshly fetched for its own token (plus the purge of
\* already-expired entries), and a request served from the cache or ending
\* without a successful identity call leaves every live cache entry
\* unchanged.
C39_RequestFrame ==
    [][ (req' # req) =>
           /\ config' = config /\ server' = server /\ now' = now
           /\ \A t \in Live(cache, now) : t \in DOMAIN cache'
           /\ \A t \in DOMAIN cache' :
                 (t \notin DOMAIN cache \/ cache'[t] # cache[t])
                     => \E r \in Slots : PutsFresh(r, t)
           /\ Cardinality(Written(cache, cache')) <= 1
           /\ \A r \in Slots :
                 (req'[r] # req[r] /\ req[r].pc # "cache_set")
                     => Written(cache, cache') = {}
      ]_vars

\* A request has been served from the cache, and the entry that served it
\* is in the cache as it was put.
C39_Witness ==
    \E r \in Slots :
        /\ req[r].pc = "done"
        /\ req[r].session.some /\ ~req[r].reply.some
        /\ req[r].session_token.val \in Live(cache, now)
        /\ cache[req[r].session_token.val].session = req[r].session.val

\* A request has purged an expired entry of another token and been
\* redirected to login, the identity service having refused its own.
C39_PurgedOnly ==
    \E r \in Slots :
        /\ req[r].pc = "done" /\ env.cache_enabled
        /\ req[r].reply.some /\ req[r].reply.val.kind # "session"
        /\ cache = NoEntries /\ now > JwtExp

(***************************************************************************)
(* Concurrent requests before one cache.  req[r] is a request inside       *)
(* validate_session: its token, the session the identity service returned  *)
(* to it and the session it is evaluated against.  The identity service    *)
(* answers a token with a session it has issued for that token.  The map   *)
(* is behind an RwLock: clean_expired and insert run under the write       *)
(* guard, the lookup under a read guard, each as one step.                 *)
(***************************************************************************)
IsoSlots == {"c1", "c2"}

\* The sessions the identity service may return for each token.
IssuedFor == [t \in CacheTokens |->
                 IF t = tok1 THEN {sess_admin, sess_linefeed} ELSE {sess_user}]

\* A cache that keeps its entries under the first character of the token.
cache_key_truncated(token) == SubSeq(token, 1, 1)

\* The key of a token's entry: token.to_string() in InMemoryCache.
cache_key(token) == token

NoIso == [pc |-> "idle", token |-> <<>>, fetched |-> None, session |-> None]

InitIso ==
    /\ cache = NoEntries
    /\ now = 0
    /\ req = [r \in IsoSlots |-> NoIso]
    /\ config = Idle /\ env = Idle /\ server = Idle
    /\ args = Idle /\ ret = Idle /\ hist = Idle

IsoReceive(r) ==
    /\ req[r].pc \in {"idle", "done"}
    /\ \E t \in CacheTokens :
          req' = [req EXCEPT ![r] = [NoIso EXCEPT !.pc = "cache_clean", !.token = t]]
    /\ UNCHANGED <<config, cache, now, env, server, harness_vars>>

\* InMemoryCache::get, first half.
IsoClean(r) ==
    /\ req[r].pc = "cache_clean"
    /\ cache' = clean_expired(cache, now)
    /\ req' = [req EXCEPT ![r].pc = "cache_read"]
    /\ UNCHANGED <<config, now, env, server, harness_vars>>

iso_read(q, hit) ==
    IF hit.some THEN [q EXCEPT !.pc = "done", !.session = hit]
    ELSE [q EXCEPT !.pc = "identity"]

\* InMemoryCache::get, second half, and the return of a hit.
IsoRead(r) ==
    /\ req[r].pc = "cache_read"
    /\ req' = [req EXCEPT ![r] =
                  iso_read(req[r], cache_lookup(cache, cache_key(req[r].token), now))]
    /\ UNCHANGED <<config, cache, now, env, server, harness_vars>>

\* The identity service answers the call made with the request's token.
IsoIdentity(r) ==
    /\ req[r].pc = "identity"
    /\ \/ req' = [req EXCEPT ![r].pc = "done"]
       \/ \E s \in IssuedFor[req[r].token] :
             req' = [req EXCEPT ![r].pc = "cache_set", ![r].fetched = Some(s)]
    /\ UNCHANGED <<config, cache, now, env, server, harness_vars>>

iso_ttl(ttl) == IF ttl.some THEN ttl.val ELSE DefaultTtl

\* cache.set and the return of the fetched session.
IsoSet(r) ==
    /\ req[r].pc = "cache_set"
    /\ cache' = cache_set(cache, cache_key(req[r].token), req[r].fetched.val,
                          iso_ttl(extract_jwt_expiration(req[r].token, now)), now)
    /\ req' = [req EXCEPT ![r].pc = "done", ![r].session = req[r].fetched]
    /\ UNCHANGED <<config, now, env, server, harness_vars>>

NextIso ==
    \E r \in IsoSlots :
        \/ IsoReceive(r)
        \/ IsoClean(r)
        \/ IsoRead(r)
        \/ IsoIdentity(r)
        \/ IsoSet(r)

SpecIso == InitIso /\ [][NextIso]_vars

\* C40: token isolation under concurrency: for any interleaving of
\* concurrent requests, the session a request is evaluated against was
\* returned by the identity service for exactly the token that request
\* presented (either just now or via a cached entry stored under that same
\* token); a get for token t never returns a session stored under a
\* different token, and concurrent puts and gets on the same token return
\* either the previous or the new session in full, never a mixture.
C40_TokenIsolation ==
    /\ \A r \in IsoSlots :
          req[r].session.some => req[r].session.val \in IssuedFor[req[r].token]
    /\ \A t \in CacheTokens :
          cache_key(t) \in DOMAIN cache => cache[cache_key(t)].session \in IssuedFor[t]
    /\ \A r \in IsoSlots :
          req[r].fetched.some => req[r].fetched.val \in IssuedFor[req[r].token]
    /\ DOMAIN cache \subseteq {cache_key(t) : t \in CacheTokens}

\* Two requests with the same token have both put a session, one after the
\* other, and the cache holds one of the two in full.
C40_Witness ==
    /\ req["c1"].pc = "done" /\ req["c2"].pc = "done"
    /\ req["c1"].token = tok1 /\ req["c2"].token = tok1
    /\ req["c1"].fetched = Some(sess_admin)
    /\ req["c2"].fetched = Some(sess_linefeed)
    /\ tok1 \in DOMAIN cache /\ cache[tok1].session \in {sess_admin, sess_linefeed}

\* A request has been served from the entry another request put for the
\* same token, while the cache also holds the entry of the other token.
C40_ServedFromOther ==
    /\ req["c1"].pc = "cache_set" /\ req["c1"].token = tok2
    /\ req["c2"].pc = "done" /\ req["c2"].token = tok1
    /\ ~req["c2"].fetched.some /\ req["c2"].session.some
    /\ tok2 \in DOMAIN cache /\ tok1 \in DOMAIN cache

====
